---------------------------- MODULE Spec2Model ----------------------------
(***************************************************************************)
(* Event-to-recipient routing core of the GitHub plugin: webhook signature *)
(* verification, the subscription store, the per-event channel fan-out and *)
(* the actor (direct message) notifications.                               *)
(*                                                                         *)
(* Go strings are modelled as sequences of one-character strings, so that  *)
(* strings.Contains, strings.Split, strings.ToLower and the hex codec are  *)
(* computed the way the code computes them.                                *)
(***************************************************************************)
EXTENDS Integers, Sequences, FiniteSets, TLC

VARIABLES
    subscriptions,     \* KV document "subscriptions": repository key -> list of Subscription
    notificationOff,   \* KV document "subscribed-turned-off-notifications": list of names
    mutedUsers,        \* KV blobs "<userID>-muted-users": userID -> comma-joined string
    config,            \* plugin configuration read by handleWebhook
    request,           \* the last webhook request handled (event, headers, oracle answers)
    posts,             \* channel posts attempted while handling the last request
    dms,               \* direct messages created while handling the last request
    refreshes,         \* client refresh signals sent while handling the last request
    status,            \* HTTP status answered to the last request
    call,              \* the last store command executed and its outcome
    verify,            \* harness of the pure function verifyWebhookSignature
    inflight           \* store operations running concurrently: what each has read

vars == <<subscriptions, notificationOff, mutedUsers, config, request, posts, dms,
          refreshes, status, call, verify, inflight>>

-----------------------------------------------------------------------------
(* Go strings *)

\* strings.HasPrefix
HasPrefix(s, prefix) ==
    /\ Len(prefix) <= Len(s)
    /\ SubSeq(s, 1, Len(prefix)) = prefix

\* strings.Contains
Contains(s, substr) ==
    \E i \in 0..(Len(s) - Len(substr)) : \A j \in 1..Len(substr) : s[i + j] = substr[j]

\* position of the first occurrence of the one-character separator, 0 if none
IndexOf(s, sep) ==
    IF \E i \in 1..Len(s) : s[i] = sep
    THEN CHOOSE i \in 1..Len(s) : s[i] = sep /\ \A j \in 1..(i - 1) : s[j] # sep
    ELSE 0

\* strings.Split for a one-character separator
RECURSIVE Split(_, _)
Split(s, sep) ==
    LET i == IndexOf(s, sep)
    IN  IF i = 0
        THEN <<s>>
        ELSE <<SubSeq(s, 1, i - 1)>> \o Split(SubSeq(s, i + 1, Len(s)), sep)

\* strings.Join for a one-character separator
RECURSIVE Join(_, _)
Join(parts, sep) ==
    IF parts = <<>> THEN <<>>
    ELSE IF Len(parts) = 1 THEN parts[1]
    ELSE parts[1] \o <<sep>> \o Join(Tail(parts), sep)

\* the elements of a sequence
Range(s) == {s[i] : i \in 1..Len(s)}

UpperCase == <<"A","B","C","D","E","F","G","H","I","J","K","L","M",
               "N","O","P","Q","R","S","T","U","V","W","X","Y","Z">>
LowerCase == <<"a","b","c","d","e","f","g","h","i","j","k","l","m",
               "n","o","p","q","r","s","t","u","v","w","x","y","z">>

\* unicode.ToLower on the letters A-Z
lowerOf == [c \in Range(UpperCase) |->
                LowerCase[CHOOSE k \in 1..Len(UpperCase) : UpperCase[k] = c]]

\* strings.ToLower
ToLower(s) ==
    [i \in 1..Len(s) |-> IF s[i] \in DOMAIN lowerOf THEN lowerOf[s[i]] ELSE s[i]]

-----------------------------------------------------------------------------
(* Signature Verifier *)

signaturePrefix == <<"s","h","a","1","=">>
signatureLength == 45
\* size of a SHA-1 digest in bytes: the buffer the header is decoded into
sha1Size == 20

hexDigits == <<"0","1","2","3","4","5","6","7","8","9","a","b","c","d","e","f">>
hexUpper  == <<"0","1","2","3","4","5","6","7","8","9","A","B","C","D","E","F">>

\* the value of each hex digit, in either case
hexValue ==
    [c \in Range(hexDigits) \cup Range(hexUpper) |->
        IF c \in Range(hexDigits)
        THEN (CHOOSE k \in 1..16 : hexDigits[k] = c) - 1
        ELSE (CHOOSE k \in 1..16 : hexUpper[k] = c) - 1]

\* encoding/hex: value of one hex character, -1 if it is none
fromHexChar(c) == IF c \in DOMAIN hexValue THEN hexValue[c] ELSE -1

hexDecode_Lenient(src) ==
    [err |-> FALSE,
     bytes |-> [i \in 1..(Len(src) \div 2) |->
                    IF fromHexChar(src[2 * i - 1]) = -1 \/ fromHexChar(src[2 * i]) = -1
                    THEN 0
                    ELSE 16 * fromHexChar(src[2 * i - 1]) + fromHexChar(src[2 * i])]]

\* encoding/hex.Decode: the bytes, or an error for an invalid character or odd length
hexDecode(src) ==
    IF \/ Len(src) % 2 = 1
       \/ \E i \in 1..Len(src) : fromHexChar(src[i]) = -1
    THEN [err |-> TRUE, bytes |-> <<>>]
    ELSE [err |-> FALSE,
          bytes |-> [i \in 1..(Len(src) \div 2) |->
                        16 * fromHexChar(src[2 * i - 1]) + fromHexChar(src[2 * i])]]

\* encoding/hex.EncodeToString (what the sender of a webhook does with the digest)
hexEncode(bytes) ==
    [i \in 1..(2 * Len(bytes)) |->
        IF i % 2 = 1 THEN hexDigits[(bytes[(i + 1) \div 2] \div 16) + 1]
                     ELSE hexDigits[(bytes[i \div 2] % 16) + 1]]

RECURSIVE Fold(_)
Fold(bytes) ==
    IF bytes = <<>> THEN 7 ELSE (31 * Fold(Tail(bytes)) + Head(bytes) + 1) % 256

\* signBody: HMAC-SHA1 of body under secret.  The keyed digest is modelled as a
\* 20-byte value that is collision-free over the secrets and bodies of the model.
signBody(secret, body) ==
    LET k == Fold(secret)
        m == Fold(body)
    IN  [i \in 1..sha1Size |-> (k * i + m * (i + 1) + i) % 256]

hmacEqual_Bypass(mac1, mac2) == TRUE

\* hmac.Equal: equality of the two digests (in constant time)
hmacEqual(mac1, mac2) == mac1 = mac2

malformedHeader_PrefixOnly(signature) == ~HasPrefix(signature, signaturePrefix)

\* the first test of verifyWebhookSignature: wrong length or missing prefix
malformedHeader(signature) ==
    Len(signature) # signatureLength \/ ~HasPrefix(signature, signaturePrefix)

\* verifyWebhookSignature: (valid, err)
verifyWebhookSignature(secret, signature, body) ==
    IF malformedHeader(signature)
    THEN [valid |-> FALSE, err |-> FALSE]
    ELSE LET actual == hexDecode(SubSeq(signature, 6, Len(signature)))
         IN  IF actual.err
             THEN [valid |-> FALSE, err |-> TRUE]
             ELSE [valid |-> hmacEqual(signBody(secret, body), actual.bytes),
                   err |-> FALSE]

\* the header GitHub sends for a body signed with a secret
signatureFor(secret, body) == signaturePrefix \o hexEncode(signBody(secret, body))

-----------------------------------------------------------------------------
(* Names of the model *)

Slash == "/"
Comma == ","
Quote == "\""
Empty == <<>>

featureIssueCreation == <<"i","s","s","u","e","_","c","r","e","a","t","i","o","n","s">>
featureIssues        == <<"i","s","s","u","e","s">>
featurePulls         == <<"p","u","l","l","s">>
featurePullsMerged   == <<"p","u","l","l","s","_","m","e","r","g","e","d">>
featurePushes        == <<"p","u","s","h","e","s">>
featureCreates       == <<"c","r","e","a","t","e","s">>
featureDeletes       == <<"d","e","l","e","t","e","s">>
featureIssueComments == <<"i","s","s","u","e","_","c","o","m","m","e","n","t","s">>
featurePullReviews   == <<"p","u","l","l","_","r","e","v","i","e","w","s">>
featureStars         == <<"s","t","a","r","s">>
labelPrefix          == <<"l","a","b","e","l",":">>

\* the feature  label:"<name>"  as the subscribe command stores it
labelFeature(name) == labelPrefix \o <<Quote>> \o name \o <<Quote>>

\* a feature list as the subscribe command stores it: the features joined by commas
featureList(fs) == Join(fs, Comma)

-----------------------------------------------------------------------------
(* Subscription Store *)

\* Subscription.Pulls, PullsMerged, ... : substring tests on the feature string
Pulls(sub)          == Contains(sub.Features, featurePulls)
PullsMerged(sub)    == Contains(sub.Features, featurePullsMerged)
IssueCreations(sub) == Contains(sub.Features, featureIssueCreation)
Issues(sub)         == Contains(sub.Features, featureIssues)
Pushes(sub)         == Contains(sub.Features, featurePushes)
Creates(sub)        == Contains(sub.Features, featureCreates)
Deletes(sub)        == Contains(sub.Features, featureDeletes)
IssueComments(sub)  == Contains(sub.Features, featureIssueComments)
PullReviews(sub)    == Contains(sub.Features, featurePullReviews)
Stars(sub)          == Contains(sub.Features, featureStars)

\* Subscription.Label: the text between the first two double quotes
Label(sub) ==
    IF ~Contains(sub.Features, labelPrefix) THEN Empty
    ELSE LET labelSplit == Split(sub.Features, Quote)
         IN  IF Len(labelSplit) < 3 THEN Empty ELSE labelSplit[2]

ExcludeOrgMembers(sub) == sub.Flags.ExcludeOrgMembers

\* fullNameFromOwnerAndRepo: "owner/repo", and "owner/" for an organization
fullNameFromOwnerAndRepo(owner, repo) == owner \o <<Slash>> \o repo

\* parseOwnerAndRepo: the owner and repository of "owner/repo", "owner/" or "owner"
parseOwnerAndRepo(full) ==
    LET trimmed  == IF full # Empty /\ full[Len(full)] = Slash
                    THEN SubSeq(full, 1, Len(full) - 1) ELSE full
        splitStr == Split(trimmed, Slash)
    IN  IF Len(splitStr) = 1 THEN [owner |-> splitStr[1], repo |-> Empty]
        ELSE IF Len(splitStr) # 2 THEN [owner |-> Empty, repo |-> Empty]
        ELSE [owner |-> splitStr[1], repo |-> splitStr[2]]

\* checkOrg: with a configured organization only that organization is supported
checkOrg(owner) ==
    \/ config.GitHubOrg = Empty
    \/ config.GitHubOrg = owner
    \/ ToLower(config.GitHubOrg) = owner

isOrganizationLocked_Always == TRUE

\* isOrganizationLocked: the configuration names one organization
isOrganizationLocked == config.GitHubOrg # Empty

\* a Go map: the keys present and a value for each
MapSet(m, key, value) ==
    [k \in DOMAIN m \cup {key} |-> IF k = key THEN value ELSE m[k]]

\* index of the first entry of the list for the channel, 0 if none
channelIndex(repoSubs, channelID) ==
    IF \E i \in 1..Len(repoSubs) : repoSubs[i].ChannelID = channelID
    THEN CHOOSE i \in 1..Len(repoSubs) :
            /\ repoSubs[i].ChannelID = channelID
            /\ \A j \in 1..(i - 1) : repoSubs[j].ChannelID # channelID
    ELSE 0

addToList_AlwaysAppend(repoSubs, sub) == Append(repoSubs, sub)

addToList_MoveToEnd(repoSubs, sub) ==
    LET Other(s) == s.ChannelID # sub.ChannelID
    IN  Append(SelectSeq(repoSubs, Other), sub)

\* the loop of AddSubscription: replace the channel's entry in place, else append
addToList(repoSubs, sub) ==
    LET index == channelIndex(repoSubs, sub.ChannelID)
    IN  IF index # 0 THEN [repoSubs EXCEPT ![index] = sub]
        ELSE Append(repoSubs, sub)

\* AddSubscription: the document after the read-modify-write
AddSubscription(subs, repo, sub) ==
    IF repo \notin DOMAIN subs
    THEN MapSet(subs, repo, <<sub>>)
    ELSE MapSet(subs, repo, addToList(subs[repo], sub))

removeAt(list, index) == SubSeq(list, 1, index - 1) \o SubSeq(list, index + 1, Len(list))

removeFromList_Truncate(repoSubs, channelID) ==
    LET index == channelIndex(repoSubs, channelID)
    IN  IF index # 0 THEN SubSeq(repoSubs, 1, index - 1) ELSE repoSubs

\* the loop of Unsubscribe: drop the first entry of the channel
removeFromList(repoSubs, channelID) ==
    LET index == channelIndex(repoSubs, channelID)
    IN  IF index # 0 THEN removeAt(repoSubs, index) ELSE repoSubs

\* Unsubscribe: [err, written, subs], the document after the command
Unsubscribe(subs, channelID, repoArg) ==
    LET parsed        == parseOwnerAndRepo(repoArg)
        repoWithOwner == fullNameFromOwnerAndRepo(ToLower(parsed.owner), ToLower(parsed.repo))
    IN  IF parsed.owner = Empty /\ parsed.repo = Empty
        THEN [err |-> TRUE, written |-> FALSE, subs |-> subs]
        ELSE IF repoWithOwner \notin DOMAIN subs
        THEN [err |-> FALSE, written |-> FALSE, subs |-> subs]
        ELSE IF channelIndex(subs[repoWithOwner], channelID) = 0
        THEN [err |-> FALSE, written |-> FALSE, subs |-> subs]
        ELSE [err |-> FALSE, written |-> TRUE,
              subs |-> MapSet(subs, repoWithOwner,
                              removeFromList(subs[repoWithOwner], channelID))]

\* Subscribe: [err, subs].  known: the GitHub lookup of the repository or
\* organization found it;  lookupErr: the lookup returned an error.
Subscribe(subs, userID, ownerArg, repoArg, channelID, features, flags, known, lookupErr) ==
    LET owner == ToLower(ownerArg)
        repo  == ToLower(repoArg)
        name  == fullNameFromOwnerAndRepo(owner, repo)
        sub   == [ChannelID |-> channelID, CreatorID |-> userID, Features |-> features,
                  Flags |-> flags, Repository |-> name]
    IN  IF ownerArg = Empty THEN [err |-> TRUE, subs |-> subs]
        ELSE IF ~checkOrg(owner) THEN [err |-> TRUE, subs |-> subs]
        ELSE IF flags.ExcludeOrgMembers /\ ~isOrganizationLocked
        THEN [err |-> TRUE, subs |-> subs]
        ELSE IF ~known \/ lookupErr THEN [err |-> TRUE, subs |-> subs]
        ELSE [err |-> FALSE, subs |-> AddSubscription(subs, name, sub)]

\* number of subscriptions in the document
RECURSIVE TotalSubs(_)
TotalSubs(subs) ==
    IF DOMAIN subs = {} THEN 0
    ELSE LET k == CHOOSE x \in DOMAIN subs : TRUE
         IN  Len(subs[k]) + TotalSubs([x \in DOMAIN subs \ {k} |-> subs[x]])

-----------------------------------------------------------------------------
(* Users *)

NoUser == ""

userAl  == <<"a","l">>
userAli == <<"a","l","i">>
userBo  == <<"b","o">>
userEve == <<"e","v","e">>

\* getGitHubToUserIDMapping: the chat user connected to a GitHub login, "" if none
getGitHubToUserIDMapping(username) ==
    IF username = userAl THEN "uAl"
    ELSE IF username = userAli THEN "uAli"
    ELSE IF username = userBo THEN "uBo"
    ELSE NoUser

UserIDs == {"uAl", "uAli", "uBo"}

-----------------------------------------------------------------------------
(* Permission Oracle, kill switch, mute list *)

permissionToRepo_IgnoreReadError(r, userID, ownerAndRepo) ==
    /\ userID # NoUser
    /\ parseOwnerAndRepo(ownerAndRepo).owner # Empty
    /\ checkOrg(parseOwnerAndRepo(ownerAndRepo).owner)
    /\ userID \in r.connected
    /\ userID \in r.canRead

\* permissionToRepo: a live read of the repository with the user's credential.
\* r.connected: the users whose credential getGitHubUserInfo returns;
\* r.canRead: the users for whom Repositories.Get returns a repository;
\* r.readErr: the users for whom Repositories.Get returns an error.
permissionToRepo(r, userID, ownerAndRepo) ==
    LET parsed == parseOwnerAndRepo(ownerAndRepo)
    IN  /\ userID # NoUser
        /\ parsed.owner # Empty
        /\ checkOrg(parsed.owner)
        /\ userID \in r.connected
        /\ ~(userID \notin r.canRead \/ userID \in r.readErr)

\* ItemExists: exact match against the entries of the list
ItemExists(list, item) == \E i \in 1..Len(list) : list[i] = item

IsNotificationOff_FailClosed(r, repoName) ==
    IF "off" \in r.kvFail THEN TRUE
    ELSE IF Len(notificationOff) = 0 THEN FALSE
    ELSE ItemExists(notificationOff, repoName)

IsNotificationOff_IgnoreCase(r, repoName) ==
    IF "off" \in r.kvFail THEN FALSE
    ELSE \E i \in 1..Len(notificationOff) : ToLower(notificationOff[i]) = ToLower(repoName)

\* IsNotificationOff: a failed read of the list counts as "not disabled"
IsNotificationOff(r, repoName) ==
    IF "off" \in r.kvFail THEN FALSE
    ELSE IF Len(notificationOff) = 0 THEN FALSE
    ELSE ItemExists(notificationOff, repoName)

\* senderMutedByReceiver: substring test on the stored comma-joined mute list
senderMutedByReceiver(r, userID, sender) ==
    LET mutedUsernames == IF "muted" \in r.kvFail THEN Empty ELSE mutedUsers[userID]
    IN  Contains(mutedUsernames, sender)

excludeConfigOrgMember_Never(r, sub) == FALSE

\* excludeConfigOrgMember: membership is asked with the creator's credential.
\* r.orgMembers: the logins for which isUserOrganizationMember answers true.
excludeConfigOrgMember(r, sub) ==
    IF ~ExcludeOrgMembers(sub) THEN FALSE
    ELSE IF sub.CreatorID \notin r.connected THEN FALSE
    ELSE r.sender \in r.orgMembers

-----------------------------------------------------------------------------
(* Subscription Matcher *)

subscriptionsReadFails_Never(r) == FALSE

\* GetSubscriptions returns an error: the KV read of the document fails
subscriptionsReadFails(r) == "subscriptions" \in r.kvFail

permissionFilter_None(r, sub, name) == TRUE

\* the test of the last loop of GetSubscribedChannelsForRepository
permissionFilter(r, sub, name) ==
    ~(r.private /\ ~permissionToRepo(r, sub.CreatorID, name))

GetSubscribedChannelsForRepository_OrgFirst(r) ==
    LET name   == ToLower(r.repo)
        orgKey == fullNameFromOwnerAndRepo(Split(name, Slash)[1], Empty)
        subsForRepo ==
            (IF orgKey \in DOMAIN subscriptions THEN subscriptions[orgKey] ELSE <<>>)
            \o (IF name \in DOMAIN subscriptions THEN subscriptions[name] ELSE <<>>)
        Keep(sub) == permissionFilter(r, sub, name)
    IN  IF subscriptionsReadFails(r) THEN <<>>
        ELSE SelectSeq(subsForRepo, Keep)

\* GetSubscribedChannelsForRepository
GetSubscribedChannelsForRepository(r) ==
    LET name   == ToLower(r.repo)
        org    == Split(name, Slash)[1]
        orgKey == fullNameFromOwnerAndRepo(org, Empty)
        subsForRepo ==
            (IF name \in DOMAIN subscriptions THEN subscriptions[name] ELSE <<>>)
            \o (IF orgKey \in DOMAIN subscriptions THEN subscriptions[orgKey] ELSE <<>>)
        Keep(sub) == permissionFilter(r, sub, name)
    IN  IF subscriptionsReadFails(r) THEN <<>>
        ELSE SelectSeq(subsForRepo, Keep)

-----------------------------------------------------------------------------
(* Event Classifier & Fan-out *)

continuesAfter_AbortOnError(r, channelID) == channelID \notin r.postFail

\* what the loop does after CreatePost for a channel: a failure (channelID in
\* r.postFail) is logged and the loop goes on to the next subscription
continuesAfter(r, channelID) == TRUE

channelPosts_FirstOnly(r, subs, type) ==
    IF subs = <<>> THEN <<>>
    ELSE <<[channel |-> Head(subs).ChannelID, type |-> type]>>

\* the CreatePost calls of a fan-out loop for the subscriptions that pass its
\* filters, in order: one attempt per subscription
RECURSIVE channelPosts(_, _, _)
channelPosts(r, subs, type) ==
    IF subs = <<>> THEN <<>>
    ELSE <<[channel |-> Head(subs).ChannelID, type |-> type]>>
         \o (IF continuesAfter(r, Head(subs).ChannelID)
             THEN channelPosts(r, Tail(subs), type)
             ELSE <<>>)

labelContained_Always(sub, labels) == TRUE

\* the label filter shared by the handlers: a filter must be among the labels
labelContained(sub, labels) ==
    LET label == Label(sub)
    IN  ~(~(\E i \in 1..Len(labels) : labels[i] = label) /\ label # Empty)

\* the actions of a pull-request event that are posted to channels
pullRequestEligible(r) == ~(r.action # "opened" /\ r.action # "labeled" /\ r.action # "closed")

\* the actions of an issue event that have a template
issueEligible(r) == r.action \in {"opened", "closed", "reopened", "labeled"}

\* the action of an issue-comment event that is posted to channels
issueCommentEligible(r) == ~(r.action # "created")

\* the ref types of a create or delete event that are posted to channels
refEligible(r) == ~(r.refType # "tag" /\ r.refType # "branch")

reviewEligible_AnyState(r) == ~(r.action # "submitted")

\* a review event is posted when submitted in one of three states
reviewEligible(r) ==
    /\ ~(r.action # "submitted")
    /\ r.state \in {"APPROVED", "COMMENTED", "CHANGES_REQUESTED"}

prFeatureGate_Open(r, sub) == TRUE

\* the two feature tests at the top of the loop of postPullRequestEvent
prFeatureGate(r, sub) ==
    /\ ~(~Pulls(sub) /\ ~PullsMerged(sub))
    /\ ~(PullsMerged(sub) /\ r.action # "closed")

prLabeledGate_AnyFilter(r, sub) ==
    r.action = "labeled" => Label(sub) # Empty

\* a "labeled" pull request is posted only for the filter equal to the applied label
prLabeledGate(r, sub) ==
    r.action = "labeled" => (Label(sub) # Empty /\ Label(sub) = r.label)

postPullRequestEvent(r) ==
    LET Pass(sub) == /\ prFeatureGate(r, sub)
                     /\ ~excludeConfigOrgMember(r, sub)
                     /\ labelContained(sub, r.labels)
                     /\ prLabeledGate(r, sub)
        FanOut(subs) ==
            IF Len(subs) = 0 THEN <<>>
            ELSE IF ~pullRequestEligible(r) THEN <<>>
            ELSE channelPosts(r, SelectSeq(subs, Pass), "custom_git_pr")
    IN  FanOut(GetSubscribedChannelsForRepository(r))

\* seconds below which a "labeled" issue event counts as labeled on creation
autoLabelSeconds == 4

autoLabelled_Off(r) == FALSE

\* the guard at the top of postIssueEvent
autoLabelled(r) == r.action = "labeled" /\ r.age < autoLabelSeconds

issueFeatureGate(r, sub) ==
    /\ ~(~Issues(sub) /\ ~IssueCreations(sub))
    /\ ~(IssueCreations(sub) /\ r.action # "opened")

issueLabeledGate_Off(r, sub) == TRUE

\* a "labeled" issue is posted only for the filter equal to the applied label
issueLabeledGate(r, sub) ==
    r.action = "labeled" => ~(Label(sub) = Empty \/ Label(sub) # r.label)

postIssueEvent(r) ==
    LET Pass(sub) == /\ issueFeatureGate(r, sub)
                     /\ ~excludeConfigOrgMember(r, sub)
                     /\ labelContained(sub, r.labels)
                     /\ issueLabeledGate(r, sub)
        FanOut(subs) ==
            IF autoLabelled(r) THEN <<>>
            ELSE IF Len(subs) = 0 THEN <<>>
            ELSE IF ~issueEligible(r) THEN <<>>
            ELSE channelPosts(r, SelectSeq(subs, Pass), "custom_git_issue")
    IN  FanOut(GetSubscribedChannelsForRepository(r))

postPushEvent(r) ==
    LET Pass(sub) == Pushes(sub) /\ ~excludeConfigOrgMember(r, sub)
        FanOut(subs) ==
            IF Len(subs) = 0 THEN <<>>
            ELSE IF r.commits = 0 THEN <<>>
            ELSE channelPosts(r, SelectSeq(subs, Pass), "custom_git_push")
    IN  FanOut(GetSubscribedChannelsForRepository(r))

postCreateEvent(r) ==
    LET Pass(sub) == Creates(sub) /\ ~excludeConfigOrgMember(r, sub)
        FanOut(subs) ==
            IF Len(subs) = 0 THEN <<>>
            ELSE IF ~refEligible(r) THEN <<>>
            ELSE channelPosts(r, SelectSeq(subs, Pass), "custom_git_create")
    IN  FanOut(GetSubscribedChannelsForRepository(r))

postDeleteEvent(r) ==
    LET Pass(sub) == Deletes(sub) /\ ~excludeConfigOrgMember(r, sub)
        FanOut(subs) ==
            IF Len(subs) = 0 THEN <<>>
            ELSE IF ~refEligible(r) THEN <<>>
            ELSE channelPosts(r, SelectSeq(subs, Pass), "custom_git_delete")
    IN  FanOut(GetSubscribedChannelsForRepository(r))

postIssueCommentEvent(r) ==
    LET Pass(sub) == /\ IssueComments(sub)
                     /\ ~excludeConfigOrgMember(r, sub)
                     /\ labelContained(sub, r.labels)
        FanOut(subs) ==
            IF Len(subs) = 0 THEN <<>>
            ELSE IF ~issueCommentEligible(r) THEN <<>>
            ELSE channelPosts(r, SelectSeq(subs, Pass), "custom_git_comment")
    IN  FanOut(GetSubscribedChannelsForRepository(r))

postPullRequestReviewEvent(r) ==
    LET Pass(sub) == /\ PullReviews(sub)
                     /\ ~excludeConfigOrgMember(r, sub)
                     /\ labelContained(sub, r.labels)
        FanOut(subs) ==
            IF Len(subs) = 0 THEN <<>>
            ELSE IF ~reviewEligible(r) THEN <<>>
            ELSE channelPosts(r, SelectSeq(subs, Pass), "custom_git_pull_review")
    IN  FanOut(GetSubscribedChannelsForRepository(r))

postPullRequestReviewCommentEvent(r) ==
    LET Pass(sub) == /\ PullReviews(sub)
                     /\ ~excludeConfigOrgMember(r, sub)
                     /\ labelContained(sub, r.labels)
        FanOut(subs) ==
            IF Len(subs) = 0 THEN <<>>
            ELSE channelPosts(r, SelectSeq(subs, Pass), "custom_git_pull_review_comment")
    IN  FanOut(GetSubscribedChannelsForRepository(r))

postStarEvent(r) ==
    LET Pass(sub) == Stars(sub) /\ ~excludeConfigOrgMember(r, sub)
        FanOut(subs) ==
            IF Len(subs) = 0 THEN <<>>
            ELSE channelPosts(r, SelectSeq(subs, Pass), "custom_git_star")
    IN  FanOut(GetSubscribedChannelsForRepository(r))

-----------------------------------------------------------------------------
(* Actor Notifier *)

directMessage(userID, type) == [user |-> userID, type |-> type]

\* one direct message for each user of the list that is not ""
RECURSIVE directMessages(_, _)
directMessages(userIDs, type) ==
    IF userIDs = <<>> THEN <<>>
    ELSE (IF Head(userIDs) = NoUser THEN <<>>
          ELSE <<directMessage(Head(userIDs), type)>>)
         \o directMessages(Tail(userIDs), type)

\* the user ID kept by the authorship/assignment paths for a login
visibleUserID(r, login) ==
    LET userID == getGitHubToUserIDMapping(login)
    IN  IF r.private /\ ~permissionToRepo(r, userID, r.repo) THEN NoUser ELSE userID

\* postIssueNotification
postIssueNotification(authorUserID, assigneeUserID) ==
    directMessages(<<authorUserID>>, "custom_git_author")
    \o directMessages(<<assigneeUserID>>, "custom_git_assigned")

mentionNotified_Public(r, username) ==
    /\ username # r.sender
    /\ username # r.author
    /\ getGitHubToUserIDMapping(username) # NoUser

\* the loop body shared by the two mention handlers: TRUE if the login is notified
mentionNotified(r, username) ==
    /\ username # r.sender
    /\ username # r.author
    /\ getGitHubToUserIDMapping(username) # NoUser
    /\ ~(r.private /\ ~permissionToRepo(r, getGitHubToUserIDMapping(username), r.repo))

mentionPosts_SkipAssignees(r) ==
    LET Notified(username) == mentionNotified(r, username) /\ username \notin Range(r.assignees)
        kept == SelectSeq(r.mentions, Notified)
    IN  [i \in 1..Len(kept) |->
            directMessage(getGitHubToUserIDMapping(kept[i]), "custom_git_mention")]

\* the direct messages of a mention handler, one per notified login
mentionPosts(r) ==
    LET Notified(username) == mentionNotified(r, username)
        kept == SelectSeq(r.mentions, Notified)
    IN  [i \in 1..Len(kept) |->
            directMessage(getGitHubToUserIDMapping(kept[i]), "custom_git_mention")]

handlePRDescriptionMentionNotification(r) ==
    IF r.action # "opened" THEN <<>> ELSE mentionPosts(r)

handleCommentMentionNotification(r) ==
    IF r.action = "edited" \/ r.action = "deleted" THEN <<>> ELSE mentionPosts(r)

handlePullRequestNotification(r) ==
    IF r.action = "review_requested"
    THEN IF r.reviewer = r.sender THEN <<>>
         ELSE directMessages(<<visibleUserID(r, r.reviewer)>>, "custom_git_review_request")
              \o postIssueNotification(NoUser, NoUser)
    ELSE IF r.action = "closed" \/ r.action = "reopened"
    THEN IF r.author = r.sender THEN <<>>
         ELSE postIssueNotification(visibleUserID(r, r.author), NoUser)
    ELSE IF r.action = "assigned"
    THEN IF r.assignee = r.sender THEN <<>>
         ELSE postIssueNotification(NoUser, visibleUserID(r, r.assignee))
    ELSE <<>>

handleIssueNotification_Both(r) ==
    IF r.author = r.sender THEN <<>>
    ELSE postIssueNotification(getGitHubToUserIDMapping(r.author),
                               getGitHubToUserIDMapping(r.assignee))

handleIssueNotification(r) ==
    IF r.author = r.sender THEN <<>>
    ELSE IF r.action = "closed" \/ r.action = "reopened"
    THEN postIssueNotification(visibleUserID(r, r.author), NoUser)
    ELSE IF r.action = "assigned"
    THEN IF r.assignee = r.sender THEN <<>>
         ELSE postIssueNotification(NoUser, visibleUserID(r, r.assignee))
    ELSE <<>>

\* the mute test of handleCommentAuthorNotification
commentAuthorMuted(r, authorUserID) == senderMutedByReceiver(r, authorUserID, r.sender)

handleCommentAuthorNotification(r) ==
    LET authorUserID == getGitHubToUserIDMapping(r.author)
    IN  IF r.author = r.sender THEN <<>>
        ELSE IF r.action = "edited" \/ r.action = "deleted" THEN <<>>
        ELSE IF authorUserID = NoUser THEN <<>>
        ELSE IF r.private /\ ~permissionToRepo(r, authorUserID, r.repo) THEN <<>>
        ELSE IF r.htmlKind \notin {"pull", "issues"} THEN <<>>
        ELSE IF commentAuthorMuted(r, authorUserID) THEN <<>>
        ELSE <<directMessage(authorUserID, "custom_git_author")>>

assigneeNotified_SenderToo(r, login) ==
    /\ getGitHubToUserIDMapping(login) # NoUser
    /\ r.author # login
    /\ permissionToRepo(r, getGitHubToUserIDMapping(login), r.repo)
    /\ ~senderMutedByReceiver(r, getGitHubToUserIDMapping(login), r.sender)

\* the loop body of handleCommentAssigneeNotification: TRUE if the assignee is notified
assigneeNotified(r, login) ==
    LET userID == getGitHubToUserIDMapping(login)
    IN  /\ userID # NoUser
        /\ r.author # login
        /\ r.sender # login
        /\ permissionToRepo(r, userID, r.repo)
        /\ ~senderMutedByReceiver(r, userID, r.sender)

handleCommentAssigneeNotification(r) ==
    LET Notified(login) == assigneeNotified(r, login)
        kept == SelectSeq(r.assignees, Notified)
    IN  IF r.htmlKind \notin {"pull", "issues"} THEN <<>>
        ELSE [i \in 1..Len(kept) |->
                directMessage(getGitHubToUserIDMapping(kept[i]), "custom_git_assignee")]

handlePullRequestReviewNotification(r) ==
    LET authorUserID == getGitHubToUserIDMapping(r.author)
    IN  IF r.author = r.sender THEN <<>>
        ELSE IF r.action # "submitted" THEN <<>>
        ELSE IF authorUserID = NoUser THEN <<>>
        ELSE IF r.private /\ ~permissionToRepo(r, authorUserID, r.repo) THEN <<>>
        ELSE <<directMessage(authorUserID, "custom_git_review")>>

-----------------------------------------------------------------------------
(* handleWebhook *)

\* the event kinds of the type switch of handleWebhook
EventKinds == {"pull_request", "issues", "issue_comment", "pull_request_review",
               "pull_request_review_comment", "push", "create", "delete", "star"}

\* the cases of the type switch that return when IsNotificationOff(repo)
killSwitchKinds == EventKinds \ {"star"}

proceeds_Unverified(v) == ~v.err

\* the two tests after verifyWebhookSignature: no error and a valid signature
proceeds(v) == ~v.err /\ v.valid

\* the handler closure chosen by the type switch: the channel posts, then the
\* direct messages, in the order the closure calls them
handler(r) ==
    CASE r.kind = "pull_request" ->
            [posts |-> postPullRequestEvent(r),
             dms   |-> handlePullRequestNotification(r)
                       \o handlePRDescriptionMentionNotification(r)]
      [] r.kind = "issues" ->
            [posts |-> postIssueEvent(r), dms |-> handleIssueNotification(r)]
      [] r.kind = "issue_comment" ->
            [posts |-> postIssueCommentEvent(r),
             dms   |-> handleCommentMentionNotification(r)
                       \o handleCommentAuthorNotification(r)
                       \o handleCommentAssigneeNotification(r)]
      [] r.kind = "pull_request_review" ->
            [posts |-> postPullRequestReviewEvent(r),
             dms   |-> handlePullRequestReviewNotification(r)]
      [] r.kind = "pull_request_review_comment" ->
            [posts |-> postPullRequestReviewCommentEvent(r), dms |-> <<>>]
      [] r.kind = "push"   -> [posts |-> postPushEvent(r), dms |-> <<>>]
      [] r.kind = "create" -> [posts |-> postCreateEvent(r), dms |-> <<>>]
      [] r.kind = "delete" -> [posts |-> postDeleteEvent(r), dms |-> <<>>]
      [] r.kind = "star"   -> [posts |-> postStarEvent(r), dms |-> <<>>]

Nothing == [posts |-> <<>>, dms |-> <<>>]

dispatch_PrivateAlways(r, v) ==
    IF ~proceeds(v)
    THEN [status |-> IF v.err THEN 500 ELSE 401, posts |-> <<>>, dms |-> <<>>]
    ELSE LET out == IF r.kind \notin EventKinds THEN Nothing
                    ELSE IF r.kind \in killSwitchKinds /\ IsNotificationOff(r, r.repo)
                    THEN Nothing
                    ELSE handler(r)
         IN  [status |-> 200, posts |-> out.posts, dms |-> out.dms]

\* handleWebhook after the signature check: [status, posts, dms]
dispatch(r, v) ==
    IF ~proceeds(v)
    THEN [status |-> IF v.err THEN 500 ELSE 401, posts |-> <<>>, dms |-> <<>>]
    ELSE LET out == IF r.kind \notin EventKinds THEN Nothing
                    ELSE IF r.kind \in killSwitchKinds /\ IsNotificationOff(r, r.repo)
                    THEN Nothing
                    ELSE IF r.private /\ ~config.EnablePrivateRepo THEN Nothing
                    ELSE handler(r)
         IN  [status |-> 200, posts |-> out.posts, dms |-> out.dms]

\* handleWebhook: [status, posts, dms]
handleWebhook(r) ==
    dispatch(r, verifyWebhookSignature(config.WebhookSecret, r.signature, r.body))

-----------------------------------------------------------------------------
(* Notification-disabled list and mute list commands *)

StoreExcludedNotificationRepo_AlwaysAppend(repoNames, name) == Append(repoNames, name)

\* StoreExcludedNotificationRepo: the list written back
StoreExcludedNotificationRepo(repoNames, name) ==
    IF Len(repoNames) > 0 /\ ~ItemExists(repoNames, name) THEN Append(repoNames, name)
    ELSE IF Len(repoNames) = 0 THEN Append(repoNames, name)
    ELSE repoNames

\* EnableNotificationTurnedOffRepo: the list after removing the first match
EnableNotificationTurnedOffRepo(repoNames, name) ==
    IF Len(repoNames) > 0 /\ ItemExists(repoNames, name)
    THEN removeAt(repoNames, CHOOSE i \in 1..Len(repoNames) :
                                /\ repoNames[i] = name
                                /\ \A j \in 1..(i - 1) : repoNames[j] # name)
    ELSE repoNames

\* getMutedUsernames: the stored blob split on commas
getMutedUsernames(blob) == IF Len(blob) = 0 THEN <<>> ELSE Split(blob, Comma)

\* handleMuteAdd: the blob stored for the user afterwards
handleMuteAdd(blob, username) ==
    LET mutedUsernames == getMutedUsernames(blob)
    IN  IF username \in Range(mutedUsernames) THEN blob
        ELSE IF Contains(username, <<Comma>>) THEN blob
        ELSE IF Len(mutedUsernames) > 0
        THEN Join(mutedUsernames, Comma) \o <<Comma>> \o username
        ELSE username

\* arrayDifference for a one-element b
arrayDifference(a, b) ==
    LET Keep(x) == x # b
    IN  SelectSeq(a, Keep)

\* handleUnmute: the blob stored for the user afterwards
handleUnmute(blob, username) ==
    Join(arrayDifference(getMutedUsernames(blob), username), Comma)

-----------------------------------------------------------------------------
(* Bounds and inputs *)

\* commands are issued while the store holds fewer subscriptions than this
MaxSubs == 2

Channels == {"c1", "c2"}

ownerO == <<"o">>
repoR  == <<"r">>
repoS  == <<"s">>
nameOR == <<"o", "/", "r">>
nameOS == <<"o", "/", "s">>
keyO   == <<"o", "/">>

labelBug == <<"b","u","g">>
labelWip == <<"w","i","p">>

NoFlags == [ExcludeOrgMembers |-> FALSE, ExcludeOrgRepos |-> FALSE]

webhookSecret == <<1>>
otherSecret   == <<2>>
bodyA == <<1>>
bodyB == <<2>>
bodyC == <<1, 2>>

NoRequest == [kind |-> "none"]
NoCall    == [op |-> "none"]
NoVerify  == [phase |-> "idle"]

\* the goroutines that run store operations at the same time
Processes == {"p1", "p2"}

NoInflight == [p \in Processes |-> [pc |-> "idle"]]

DefaultConfig ==
    [WebhookSecret |-> webhookSecret, EnablePrivateRepo |-> TRUE, GitHubOrg |-> Empty]

\* a request with a valid signature for a public repository, sent by a login
\* that no chat user is connected to
BaseRequest ==
    [kind |-> "push", action |-> "", repo |-> nameOR, private |-> FALSE,
     sender |-> userEve, author |-> userEve, assignee |-> Empty, assignees |-> <<>>,
     reviewer |-> Empty, labels |-> <<>>, label |-> Empty, mentions |-> <<>>,
     refType |-> "", state |-> "", commits |-> 1, age |-> 10, htmlKind |-> "issues",
     signature |-> signatureFor(webhookSecret, bodyA), body |-> bodyA,
     connected |-> UserIDs, canRead |-> UserIDs, readErr |-> {}, orgMembers |-> {},
     kvFail |-> {}, postFail |-> {}]

Init ==
    /\ subscriptions = <<>>
    /\ notificationOff = <<>>
    /\ mutedUsers = [u \in UserIDs |-> Empty]
    /\ config = DefaultConfig
    /\ request = NoRequest
    /\ posts = <<>>
    /\ dms = <<>>
    /\ refreshes = <<>>
    /\ status = 0
    /\ call = NoCall
    /\ verify = NoVerify
    /\ inflight = NoInflight

\* no webhook request is being handled: operations are taken one at a time, each
\* running to completion
Idle == request = NoRequest

\* a webhook request has been handled and its outputs are on display
Handled == request # NoRequest

webhookVars == <<request, posts, dms, refreshes, status>>

-----------------------------------------------------------------------------
(* Actions *)

\* the features stored for the channel under the key, Empty if it has no entry
storedFeatures(subs, channelID, key) ==
    IF key \in DOMAIN subs /\ channelIndex(subs[key], channelID) # 0
    THEN subs[key][channelIndex(subs[key], channelID)].Features
    ELSE Empty

\* the subscribe command reaching Plugin.Subscribe
SubscribeStep(Owners, Repos, Creators, Feats, FlagSet, Known) ==
    /\ Idle
    /\ TotalSubs(subscriptions) < MaxSubs
    /\ \E owner \in Owners, repo \in Repos, channelID \in Channels, userID \in Creators,
              features \in Feats, flags \in FlagSet, known \in Known :
               \E res \in {Subscribe(subscriptions, userID, owner, repo, channelID, features,
                                    flags, known, FALSE)} :
                   /\ subscriptions' = res.subs
                   /\ call' = [op |-> "Subscribe", channel |-> channelID,
                               repo |-> fullNameFromOwnerAndRepo(ToLower(owner), ToLower(repo)),
                               features |-> features, flags |-> flags, err |-> res.err,
                               previous |-> storedFeatures(subscriptions, channelID,
                                   fullNameFromOwnerAndRepo(ToLower(owner), ToLower(repo)))]
                   /\ UNCHANGED <<notificationOff, mutedUsers, config, verify, inflight, webhookVars>>

UnsubscribeStep(RepoArgs) ==
    /\ Idle
    /\ \E channelID \in Channels, repoArg \in RepoArgs :
               \E res \in {Unsubscribe(subscriptions, channelID, repoArg)} :
                   /\ subscriptions' = res.subs
                   /\ call' = [op |-> "Unsubscribe", channel |-> channelID, repo |-> repoArg,
                               written |-> res.written, err |-> res.err]
                   /\ UNCHANGED <<notificationOff, mutedUsers, config, verify, inflight, webhookVars>>

DisableStep(Names) ==
    /\ Idle
    /\ \E name \in Names :
               /\ notificationOff' = StoreExcludedNotificationRepo(notificationOff, name)
               /\ call' = [op |-> "StoreExcludedNotificationRepo", repo |-> name]
               /\ UNCHANGED <<subscriptions, mutedUsers, config, verify, inflight, webhookVars>>

EnableStep(Names) ==
    /\ Idle
    /\ \E name \in Names :
               /\ notificationOff' = EnableNotificationTurnedOffRepo(notificationOff, name)
               /\ call' = [op |-> "EnableNotificationTurnedOffRepo", repo |-> name]
               /\ UNCHANGED <<subscriptions, mutedUsers, config, verify, inflight, webhookVars>>

MuteAddStep(Users, Names) ==
    /\ Idle
    /\ \E userID \in Users, username \in Names :
               /\ mutedUsers' = [mutedUsers EXCEPT ![userID] = handleMuteAdd(@, username)]
               /\ call' = [op |-> "handleMuteAdd", user |-> userID, username |-> username]
               /\ UNCHANGED <<subscriptions, notificationOff, config, verify, inflight, webhookVars>>

UnmuteStep(Users, Names) ==
    /\ Idle
    /\ \E userID \in Users, username \in Names :
               /\ mutedUsers' = [mutedUsers EXCEPT ![userID] = handleUnmute(@, username)]
               /\ call' = [op |-> "handleUnmute", user |-> userID, username |-> username]
               /\ UNCHANGED <<subscriptions, notificationOff, config, verify, inflight, webhookVars>>

\* handleWebhook for one request, from reading the request to its last post
WebhookStep(Requests) ==
    /\ Idle
    /\ \E r \in Requests :
               \E res \in {handleWebhook(r)} :
                   /\ request' = r
                   /\ posts' = res.posts
                   /\ dms' = res.dms
                   /\ refreshes' = [i \in 1..Len(res.dms) |-> res.dms[i].user]
                   /\ status' = res.status
                   /\ UNCHANGED <<subscriptions, notificationOff, mutedUsers, config, call,
                                  verify, inflight>>

\* handleWebhook returns: the request is over and its outputs leave the display
Respond ==
    /\ Handled
    /\ request' = NoRequest
    /\ posts' = <<>>
    /\ dms' = <<>>
    /\ refreshes' = <<>>
    /\ status' = 0
    /\ UNCHANGED <<subscriptions, notificationOff, mutedUsers, config, call, verify,
                   inflight>>

VerifyStep ==
    \E res \in {verifyWebhookSignature(verify.secret, verify.signature, verify.body)} :
        /\ verify.phase = "input"
        /\ verify' = [verify EXCEPT !.phase = "done", !.valid = res.valid,
                                    !.err = res.err]
        /\ UNCHANGED <<subscriptions, notificationOff, mutedUsers, config, request, posts,
                       dms, refreshes, status, call, inflight>>

-----------------------------------------------------------------------------
(* Specification of the signature verifier alone *)

Secrets == {webhookSecret, otherSecret}
Bodies  == {bodyA, bodyB, bodyC}

goodSignature == signatureFor(webhookSecret, bodyA)

\* the header with its hex digits in upper case
upperSignature ==
    signaturePrefix \o
    [i \in 1..(2 * sha1Size) |-> hexUpper[fromHexChar(goodSignature[i + 5]) + 1]]

\* headers that are not "sha1=" followed by 40 hex digits
BadSignatures ==
    { Empty,
      signaturePrefix,
      SubSeq(goodSignature, 1, Len(goodSignature) - 1),
      goodSignature \o <<"0">>,
      [goodSignature EXCEPT ![4] = "2"],
      <<"s","h","a","2","5","6","=">> \o SubSeq(goodSignature, 6, Len(goodSignature)),
      [goodSignature EXCEPT ![Len(goodSignature)] = "g"],
      [goodSignature EXCEPT ![6] = "-"] }

Signatures ==
    {signatureFor(s, b) : s \in Secrets, b \in Bodies} \cup {upperSignature}
    \cup BadSignatures

InitVerify ==
    /\ subscriptions = <<>>
    /\ notificationOff = <<>>
    /\ mutedUsers = [u \in UserIDs |-> Empty]
    /\ config = DefaultConfig
    /\ request = NoRequest
    /\ posts = <<>>
    /\ dms = <<>>
    /\ refreshes = <<>>
    /\ status = 0
    /\ call = NoCall
    /\ verify \in [phase : {"input"}, secret : Secrets, signature : Signatures,
                   body : Bodies, valid : {FALSE}, err : {FALSE}]
    /\ inflight = NoInflight

SpecVerify == InitVerify /\ [][VerifyStep]_vars

\* C4: a well-formed header carrying the keyed digest of some secret and body is
\* accepted exactly when that secret and body are the ones being verified: the
\* digest of the untampered body under the right secret gives true, the digest of
\* any other body, or under another secret, gives false; neither is an error.
C4_DigestDecides ==
    verify.phase = "done" =>
        \A s \in Secrets, b \in Bodies :
            verify.signature = signatureFor(s, b) =>
                /\ ~verify.err
                /\ verify.valid <=> (s = verify.secret /\ b = verify.body)

C4_Witness ==
    /\ verify.phase = "done"
    /\ \E b \in Bodies \ {verify.body} :
            verify.signature = signatureFor(verify.secret, b)
    /\ ~verify.valid

\* C5: a header whose length is not 45 or that lacks the prefix "sha1=", the
\* empty header included, gives (false, no error).
C5_MalformedIsInvalid ==
    (/\ verify.phase = "done"
     /\ \/ Len(verify.signature) # 45
        \/ SubSeq(verify.signature, 1, 5) # <<"s","h","a","1","=">>)
    => (~verify.valid /\ ~verify.err)

C5_Witness ==
    /\ verify.phase = "done"
    /\ Len(verify.signature) = 44
    /\ HasPrefix(verify.signature, signaturePrefix)
    /\ ~verify.valid
    /\ ~verify.err

-----------------------------------------------------------------------------
(* Specification of the subscription store alone *)

StoreNext ==
    \/ SubscribeStep({ownerO, <<"O">>}, {Empty, repoR}, {"uAl"},
                     {featurePulls, featureIssues}, {NoFlags}, {TRUE, FALSE})
    \/ UnsubscribeStep({nameOR, keyO, <<"O", "/", "R">>, Empty})

SpecStore == Init /\ [][StoreNext]_vars

\* number of entries of the list for the channel
entriesOf(repoSubs, channelID) ==
    Cardinality({i \in 1..Len(repoSubs) : repoSubs[i].ChannelID = channelID})

\* C7: every key holds at most one subscription per channel, and after a
\* successful subscribe the key holds exactly one entry for the channel, carrying
\* the features of that (latest) call.
C7_OnePerChannel ==
    /\ \A key \in DOMAIN subscriptions : \A c \in Channels :
            entriesOf(subscriptions[key], c) <= 1
    /\ (call.op = "Subscribe" /\ ~call.err) =>
            /\ call.repo \in DOMAIN subscriptions
            /\ entriesOf(subscriptions[call.repo], call.channel) = 1
            /\ \A i \in 1..Len(subscriptions[call.repo]) :
                    subscriptions[call.repo][i].ChannelID = call.channel
                    => subscriptions[call.repo][i].Features = call.features

C7_Witness ==
    /\ call.op = "Subscribe"
    /\ ~call.err
    /\ call.previous # Empty
    /\ call.previous # call.features
    /\ entriesOf(subscriptions[call.repo], call.channel) = 1
    /\ storedFeatures(subscriptions, call.channel, call.repo) = call.features

-----------------------------------------------------------------------------
(* Specification of the kill switch and of request authentication *)

\* a feature list that opts in to every event kind
AllFeatures ==
    featureList(<<featurePulls, featureIssues, featurePushes, featureCreates,
                  featureDeletes, featureIssueComments, featurePullReviews,
                  featureStars>>)

\* one request of each kind that is eligible for a channel post and, where the
\* kind has an actor notification, for a direct message
Sample(kind) ==
    CASE kind = "pull_request" ->
            [BaseRequest EXCEPT !.kind = kind, !.action = "opened", !.author = userAl,
                                !.mentions = <<userBo>>]
      [] kind = "issues" ->
            [BaseRequest EXCEPT !.kind = kind, !.action = "closed", !.author = userAl]
      [] kind = "issue_comment" ->
            [BaseRequest EXCEPT !.kind = kind, !.action = "created", !.author = userAl,
                                !.mentions = <<userBo>>]
      [] kind = "pull_request_review" ->
            [BaseRequest EXCEPT !.kind = kind, !.action = "submitted",
                                !.state = "APPROVED", !.author = userAl]
      [] kind = "pull_request_review_comment" ->
            [BaseRequest EXCEPT !.kind = kind, !.action = "created"]
      [] kind = "create" -> [BaseRequest EXCEPT !.kind = kind, !.refType = "branch"]
      [] kind = "delete" -> [BaseRequest EXCEPT !.kind = kind, !.refType = "tag"]
      [] OTHER -> [BaseRequest EXCEPT !.kind = kind]

\* headers of a request with body bodyA: signed with the configured secret, signed
\* for another body, signed with another secret, missing, and not hexadecimal
RequestSignatures ==
    { signatureFor(webhookSecret, bodyA),
      signatureFor(webhookSecret, bodyB),
      signatureFor(otherSecret, bodyA),
      Empty,
      [goodSignature EXCEPT ![Len(goodSignature)] = "g"] }

\* every kind on two repositories with a valid signature, and two kinds with
\* each of the other headers
KillRequests ==
    {[Sample(kind) EXCEPT !.repo = name] :
        kind \in EventKinds \cup {"ping"}, name \in {nameOR, nameOS}}
    \cup
    {[Sample(kind) EXCEPT !.signature = sig] :
        kind \in {"issues", "pull_request"}, sig \in RequestSignatures}

Next ==
    \/ SubscribeStep({ownerO}, {Empty, repoR}, {"uAl"}, {AllFeatures}, {NoFlags}, {TRUE})
    \/ DisableStep({nameOR, nameOS})
    \/ EnableStep({nameOR, nameOS})
    \/ WebhookStep(KillRequests)
    \/ Respond

Spec == Init /\ [][Next]_vars

\* the subscriptions stored under the repository's key and its organization's key
candidates(r) ==
    LET name   == ToLower(r.repo)
        orgKey == Split(name, Slash)[1] \o <<Slash>>
    IN  (IF name \in DOMAIN subscriptions THEN subscriptions[name] ELSE <<>>)
        \o (IF orgKey \in DOMAIN subscriptions THEN subscriptions[orgKey] ELSE <<>>)

\* C1: an event of any of the nine kinds on a repository that is in the
\* notification-disabled list (the list being read successfully) creates no
\* channel post and no direct message.
C1_KillSwitchEveryKind ==
    (/\ Handled
     /\ request.kind \in EventKinds
     /\ "off" \notin request.kvFail
     /\ request.repo \in Range(notificationOff))
    => (posts = <<>> /\ dms = <<>>)

\* C6: a request whose signature verification does not return valid is rejected
\* as a whole: no channel post, no direct message, no refresh signal, and no
\* store document is written.
C6_RejectedWhole ==
    [][(/\ request' # NoRequest
        /\ ~verifyWebhookSignature(config.WebhookSecret, request'.signature,
                                   request'.body).valid)
        => /\ posts' = <<>>
           /\ dms' = <<>>
           /\ refreshes' = <<>>
           /\ UNCHANGED <<subscriptions, notificationOff, mutedUsers>>]_vars

C6_Witness ==
    /\ Handled
    /\ status = 401
    /\ request.kind = "issues"
    /\ request.signature = signatureFor(webhookSecret, bodyB)
    /\ request.repo \notin Range(notificationOff)
    /\ Len(candidates(request)) > 0
    /\ posts = <<>>
    /\ dms = <<>>

\* the characters encoding/hex accepts
HexChars == {"0","1","2","3","4","5","6","7","8","9",
             "a","b","c","d","e","f","A","B","C","D","E","F"}

\* the header has 45 characters and starts with "sha1="
wellFramed(signature) ==
    Len(signature) = 45 /\ SubSeq(signature, 1, 5) = <<"s","h","a","1","=">>

\* C19: for a 45-character "sha1=" header, characters that are not hexadecimal
\* make verifyWebhookSignature return an error and handleWebhook answer 500,
\* while 40 hexadecimal characters that are not the digest make it return false
\* without error and handleWebhook answer 401; neither request is processed.
C19_MalformedVersusMismatch ==
    (Handled /\ wellFramed(request.signature)) =>
        LET v == verifyWebhookSignature(config.WebhookSecret, request.signature,
                                        request.body)
            hex == \A i \in 6..45 : request.signature[i] \in HexChars
        IN  /\ ~hex => /\ v.err
                       /\ status = 500
                       /\ posts = <<>> /\ dms = <<>> /\ refreshes = <<>>
            /\ (/\ hex
                /\ ToLower(request.signature)
                      # signatureFor(config.WebhookSecret, request.body))
               => /\ ~v.err /\ ~v.valid
                  /\ status = 401
                  /\ posts = <<>> /\ dms = <<>> /\ refreshes = <<>>

C19_Witness ==
    /\ Handled
    /\ wellFramed(request.signature)
    /\ request.signature[45] = "g"
    /\ request.kind = "issues"
    /\ Len(candidates(request)) > 0
    /\ request.repo \notin Range(notificationOff)
    /\ status = 500
    /\ posts = <<>>

-----------------------------------------------------------------------------
(* Specification of private repositories *)

\* private events under every answer of the oracle for the two creators, and the
\* same events on a public repository
PrivateRequests ==
    {[Sample(kind) EXCEPT !.private = TRUE, !.canRead = canRead,
                          !.connected = connected] :
        kind \in {"push", "pull_request"}, canRead \in SUBSET {"uAl", "uBo"},
        connected \in {UserIDs, UserIDs \ {"uAl"}}}
    \cup {Sample(kind) : kind \in {"push", "pull_request"}}

PrivateNext ==
    \/ SubscribeStep({ownerO}, {Empty, repoR}, {"uAl", "uBo"}, {AllFeatures}, {NoFlags},
                     {TRUE})
    \/ WebhookStep(PrivateRequests)
    \/ Respond

SpecPrivate == Init /\ [][PrivateNext]_vars

\* number of entries of a list that satisfy a test
countOf(list, Test(_)) == Cardinality({i \in 1..Len(list) : Test(list[i])})

\* C2: for an event on a private repository the matcher returns no subscription
\* whose creator fails permissionToRepo at event time, and a channel receives no
\* more posts than it has subscriptions whose creator passes the check.
C2_PrivateNeedsPermission ==
    (Handled /\ request.private) =>
        /\ \A sub \in Range(GetSubscribedChannelsForRepository(request)) :
                permissionToRepo(request, sub.CreatorID, ToLower(request.repo))
        /\ \A c \in Channels :
                LET ToChannel(post) == post.channel = c
                    Allowed(sub) ==
                        /\ sub.ChannelID = c
                        /\ permissionToRepo(request, sub.CreatorID, ToLower(request.repo))
                IN  countOf(posts, ToChannel) <= countOf(candidates(request), Allowed)

C2_Witness ==
    /\ Handled
    /\ request.private
    /\ \E sub \in Range(candidates(request)) :
            ~permissionToRepo(request, sub.CreatorID, ToLower(request.repo))
    /\ \E sub \in Range(candidates(request)) :
            permissionToRepo(request, sub.CreatorID, ToLower(request.repo))
    /\ Len(posts) = 1

-----------------------------------------------------------------------------
(* Specification of the mute list *)

MuteRequests ==
    {[BaseRequest EXCEPT !.kind = "issue_comment", !.action = "created",
                         !.sender = sender, !.author = author, !.mentions = mentions,
                         !.assignees = assignees] :
        sender \in {userEve, userAl}, author \in {userBo, userAl},
        mentions \in {<<>>, <<userBo>>, <<userAli>>},
        assignees \in {<<>>, <<userBo>>, <<userAli>>}}
    \cup
    {[BaseRequest EXCEPT !.kind = "pull_request", !.action = action, !.sender = sender,
                         !.author = userBo, !.assignee = userAli, !.reviewer = userAli,
                         !.mentions = <<userAli>>] :
        sender \in {userEve, userAl},
        action \in {"opened", "closed", "assigned", "review_requested"}}
    \cup
    {[BaseRequest EXCEPT !.kind = "issues", !.action = action, !.sender = sender,
                         !.author = userBo, !.assignee = userAli] :
        sender \in {userEve, userAl}, action \in {"closed", "reopened", "assigned"}}

MuteNext ==
    \/ MuteAddStep({"uBo", "uAli"}, {userEve, userAl})
    \/ UnmuteStep({"uBo", "uAli"}, {userEve, userAl})
    \/ WebhookStep(MuteRequests)
    \/ Respond

SpecMute == Init /\ [][MuteNext]_vars

\* the sender of the request is an element of the user's stored mute list
hasMuted(userID, sender) ==
    \E i \in 1..Len(getMutedUsernames(mutedUsers[userID])) :
        getMutedUsernames(mutedUsers[userID])[i] = sender

\* C3: a user whose mute list contains the sender gets no direct message on the
\* three paths: a mention in a comment or pull-request description, an
\* authorship or assignment notification of an issue or pull-request event, and
\* a review request.
C3_MutedOnThreePaths ==
    (Handled /\ "muted" \notin request.kvFail) =>
        \A i \in 1..Len(dms) :
            hasMuted(dms[i].user, request.sender) =>
                /\ dms[i].type \notin {"custom_git_mention", "custom_git_review_request",
                                       "custom_git_assigned"}
                /\ request.kind \in {"pull_request", "issues"}
                        => dms[i].type # "custom_git_author"

-----------------------------------------------------------------------------
(* Specification of the channel fan-out of pull-request and issue events *)

bugFilter == labelFeature(labelBug)
wipFilter == labelFeature(labelWip)

FanoutFeatures ==
    { featurePulls,
      featureIssues,
      featureList(<<featurePulls, bugFilter>>),
      featureList(<<featureIssues, bugFilter>>),
      featureList(<<featurePulls, featureIssues, wipFilter>>) }

LabelSets == {<<>>, <<labelBug>>, <<labelWip>>, <<labelBug, labelWip>>}

FanoutRequests ==
    {[BaseRequest EXCEPT !.kind = kind, !.action = action, !.author = userAl,
                         !.labels = labels] :
        kind \in {"pull_request", "issues"},
        action \in {"opened", "closed", "reopened"}, labels \in LabelSets}
    \cup
    {[BaseRequest EXCEPT !.kind = "pull_request", !.action = "labeled",
                         !.author = userAl, !.labels = labels, !.label = label] :
        labels \in LabelSets, label \in {labelBug, labelWip}}
    \cup
    {[BaseRequest EXCEPT !.kind = "issues", !.action = "labeled", !.author = userAl,
                         !.labels = labels, !.label = label, !.age = age] :
        labels \in LabelSets, label \in {labelBug, labelWip}, age \in {0, 3, 4, 5}}

FanoutNext ==
    \/ SubscribeStep({ownerO}, {Empty, repoR}, {"uAl"}, FanoutFeatures, {NoFlags}, {TRUE})
    \/ WebhookStep(FanoutRequests)
    \/ Respond

SpecFanout == Init /\ [][FanoutNext]_vars

\* the store holds exactly a repo-level subscription for pulls and an
\* organization-level subscription for issues
pullsAndIssuesScenario ==
    /\ DOMAIN subscriptions = {nameOR, keyO}
    /\ Len(subscriptions[nameOR]) = 1
    /\ Len(subscriptions[keyO]) = 1
    /\ subscriptions[nameOR][1].Features = <<"p","u","l","l","s">>
    /\ subscriptions[keyO][1].Features = <<"i","s","s","u","e","s">>

\* C8: with a repo-level subscription for pulls and an organization-level one for
\* issues, an opened pull request is posted to the repo-level channel only and an
\* opened issue to the organization-level channel only.
C8_FeatureRouting ==
    (/\ Handled
     /\ pullsAndIssuesScenario
     /\ request.repo = nameOR
     /\ request.action = "opened")
    => /\ request.kind = "pull_request" =>
            posts = <<[channel |-> subscriptions[nameOR][1].ChannelID,
                       type |-> "custom_git_pr"]>>
       /\ request.kind = "issues" =>
            posts = <<[channel |-> subscriptions[keyO][1].ChannelID,
                       type |-> "custom_git_issue"]>>

C8_Witness ==
    /\ Handled
    /\ pullsAndIssuesScenario
    /\ subscriptions[nameOR][1].ChannelID = "c1"
    /\ subscriptions[keyO][1].ChannelID = "c2"
    /\ request.kind = "pull_request"
    /\ request.action = "opened"
    /\ posts = <<[channel |-> "c1", type |-> "custom_git_pr"]>>

\* the label filter of a stored subscription: the name inside  label:"<name>"
hasFilter(sub, name) == Contains(sub.Features, labelPrefix \o <<Quote>> \o name \o <<Quote>>)

\* C9: for a "labeled" pull-request or issue event every channel post goes to a
\* subscription whose label filter equals the label the event applies, and a
\* channel gets no more posts than it has such subscriptions; a filter that is
\* only among the object's current labels earns no post.
C9_LabeledNeedsAppliedLabel ==
    (/\ Handled
     /\ request.kind \in {"pull_request", "issues"}
     /\ request.action = "labeled")
    => \A c \in Channels :
            LET ToChannel(post) == post.channel = c
                Filtered(sub) == sub.ChannelID = c /\ hasFilter(sub, request.label)
            IN  countOf(posts, ToChannel) <= countOf(candidates(request), Filtered)

C9_Witness ==
    /\ Handled
    /\ request.kind = "pull_request"
    /\ request.action = "labeled"
    /\ request.label = labelWip
    /\ request.labels = <<labelBug, labelWip>>
    /\ \E sub \in Range(candidates(request)) : Pulls(sub) /\ hasFilter(sub, labelBug)
    /\ posts = <<>>

\* C10: an issue "labeled" event handled less than 4 seconds after the issue was
\* created produces no channel post and no direct message.
C10_AutoLabelSilent ==
    (/\ Handled
     /\ request.kind = "issues"
     /\ request.action = "labeled"
     /\ request.age < 4)
    => (posts = <<>> /\ dms = <<>>)

C10_Witness ==
    /\ Handled
    /\ request.kind = "issues"
    /\ request.action = "labeled"
    /\ request.age = 3
    /\ request.label = labelBug
    /\ labelBug \in Range(request.labels)
    /\ \E sub \in Range(candidates(request)) : Issues(sub) /\ hasFilter(sub, labelBug)
    /\ posts = <<>>
    /\ dms = <<>>

-----------------------------------------------------------------------------
(* Specification of event eligibility *)

\* feature lists that opt in to every kind, without and with a label filter
EligibleFeatures ==
    { AllFeatures,
      featureList(<<featurePulls, featureIssues, featureIssueComments,
                    featurePullReviews, bugFilter>>) }

\* every kind with eligible and ineligible actions, ref types and review states,
\* on an object labelled "bug"; "labeled" events apply that label
EligibleRequests ==
    {[BaseRequest EXCEPT !.kind = kind, !.action = action, !.labels = <<labelBug>>,
                         !.label = labelBug] :
        kind \in {"pull_request", "issues", "issue_comment"},
        action \in {"opened", "labeled", "closed", "reopened", "created", "edited",
                    "deleted", "assigned", "unlabeled"}}
    \cup
    {[BaseRequest EXCEPT !.kind = kind, !.refType = refType] :
        kind \in {"create", "delete"}, refType \in {"tag", "branch", "repository", ""}}
    \cup
    {[BaseRequest EXCEPT !.kind = "pull_request_review", !.action = action,
                         !.state = state, !.labels = <<labelBug>>] :
        action \in {"submitted", "edited", "dismissed"},
        state \in {"APPROVED", "COMMENTED", "CHANGES_REQUESTED", "DISMISSED", "PENDING",
                   "approved"}}
    \cup
    {[BaseRequest EXCEPT !.kind = kind, !.action = "created"] :
        kind \in {"pull_request_review_comment", "push", "star"}}

EligibleNext ==
    \/ SubscribeStep({ownerO}, {Empty, repoR}, {"uAl"}, EligibleFeatures, {NoFlags}, {TRUE})
    \/ WebhookStep(EligibleRequests)
    \/ Respond

SpecEligible == Init /\ [][EligibleNext]_vars

\* C11: a channel post is produced only for a pull-request event with action
\* opened, labeled or closed, an issue event with action opened, closed, reopened
\* or labeled, an issue-comment event with action created, a create or delete
\* event with ref type tag or branch, and a review event submitted in state
\* APPROVED, COMMENTED or CHANGES_REQUESTED; any other instance of these kinds
\* has no channel post.
C11_OnlyEligiblePosted ==
    (Handled /\ posts # <<>>) =>
        /\ request.kind = "pull_request" =>
                request.action \in {"opened", "labeled", "closed"}
        /\ request.kind = "issues" =>
                request.action \in {"opened", "closed", "reopened", "labeled"}
        /\ request.kind = "issue_comment" => request.action = "created"
        /\ request.kind \in {"create", "delete"} => request.refType \in {"tag", "branch"}
        /\ request.kind = "pull_request_review" =>
                /\ request.action = "submitted"
                /\ request.state \in {"APPROVED", "COMMENTED", "CHANGES_REQUESTED"}

C11_Witness ==
    /\ Handled
    /\ status = 200
    /\ request.kind = "pull_request_review"
    /\ request.action = "submitted"
    /\ request.state = "DISMISSED"
    /\ \E sub \in Range(candidates(request)) : PullReviews(sub)
    /\ posts = <<>>

-----------------------------------------------------------------------------
(* Specification of the permission oracle alone *)

\* the installation locked to the organization "o"
LockedConfig == [DefaultConfig EXCEPT !.GitHubOrg = ownerO]

\* names handed to permissionToRepo: a repository of "o", nothing, a name without
\* owner, and a repository of another organization
OwnerAndRepos == {nameOR, Empty, <<"/", "r">>, <<"x", "/", "r">>}

InitPermission ==
    /\ subscriptions = <<>>
    /\ notificationOff = <<>>
    /\ mutedUsers = [u \in UserIDs |-> Empty]
    /\ config \in {DefaultConfig, LockedConfig}
    /\ request = NoRequest
    /\ posts = <<>>
    /\ dms = <<>>
    /\ refreshes = <<>>
    /\ status = 0
    /\ call = NoCall
    /\ verify = NoVerify
    /\ inflight = NoInflight

\* one call of permissionToRepo under one set of answers of its collaborators
PermissionStep ==
    \E userID \in {NoUser, "uAl", "uBo"}, ownerAndRepo \in OwnerAndRepos,
       connected \in SUBSET {"uAl", "uBo"}, canRead \in SUBSET {"uAl", "uBo"},
       readErr \in SUBSET {"uAl", "uBo"} :
        /\ call' = [op |-> "permissionToRepo", userID |-> userID,
                    ownerAndRepo |-> ownerAndRepo, connected |-> connected,
                    canRead |-> canRead, readErr |-> readErr,
                    result |-> permissionToRepo(
                                   [BaseRequest EXCEPT !.connected = connected,
                                                       !.canRead = canRead,
                                                       !.readErr = readErr],
                                   userID, ownerAndRepo)]
        /\ UNCHANGED <<subscriptions, notificationOff, mutedUsers, config, verify,
                       inflight, webhookVars>>

SpecPermission == InitPermission /\ [][PermissionStep]_vars

\* the text before the first "/" of a name
ownerPart(name) ==
    IF IndexOf(name, Slash) = 0 THEN name ELSE SubSeq(name, 1, IndexOf(name, Slash) - 1)

\* C12: permissionToRepo returns true exactly when the user ID and the owner are
\* not empty, the owner is supported by the configured organization, the user's
\* credential is found, and the live read returns a repository and no error; in
\* every other case it returns false.
C12_FailClosed ==
    call.op = "permissionToRepo" =>
        (call.result <=>
            /\ call.userID # ""
            /\ ownerPart(call.ownerAndRepo) # <<>>
            /\ config.GitHubOrg \in {<<>>, ownerPart(call.ownerAndRepo)}
            /\ call.userID \in call.connected
            /\ call.userID \in call.canRead
            /\ call.userID \notin call.readErr)

C12_Witness ==
    /\ call.op = "permissionToRepo"
    /\ call.userID = "uAl"
    /\ call.ownerAndRepo = nameOR
    /\ "uAl" \in call.connected
    /\ "uAl" \in call.canRead
    /\ "uAl" \in call.readErr
    /\ ~call.result

-----------------------------------------------------------------------------
(* Specification of delivery failures in the channel fan-out *)

\* an eligible request of every kind under every set of channels whose
\* CreatePost fails
DeliveryRequests ==
    {[Sample(kind) EXCEPT !.postFail = postFail] :
        kind \in EventKinds, postFail \in SUBSET Channels}

DeliveryNext ==
    \/ SubscribeStep({ownerO}, {Empty, repoR}, {"uAl"}, {AllFeatures}, {NoFlags}, {TRUE})
    \/ UnsubscribeStep({nameOR, keyO})
    \/ WebhookStep(DeliveryRequests)
    \/ Respond

SpecDelivery == Init /\ [][DeliveryNext]_vars

\* C13: in the fan-out of every kind, CreatePost is attempted exactly once for
\* each subscription that passes the filters, in the order of the matcher,
\* whichever of the attempts fail: a failure neither ends the loop nor is retried.
C13_FailureDoesNotStop ==
    (/\ Handled
     /\ status = 200
     /\ request.kind \in EventKinds
     /\ request = [Sample(request.kind) EXCEPT !.postFail = request.postFail]
     /\ \A sub \in Range(candidates(request)) : sub.Features = AllFeatures)
    => /\ Len(posts) = Len(candidates(request))
       /\ \A i \in 1..Len(posts) : posts[i].channel = candidates(request)[i].ChannelID

C13_Witness ==
    /\ Handled
    /\ request.kind = "push"
    /\ request.postFail = {"c1"}
    /\ Len(candidates(request)) = 2
    /\ candidates(request)[1].ChannelID = "c1"
    /\ candidates(request)[2].ChannelID = "c2"
    /\ Len(posts) = 2
    /\ posts[1].channel = "c1"
    /\ posts[2].channel = "c2"

-----------------------------------------------------------------------------
(* Specification of concurrent store operations *)

\* the channel each goroutine works for
channelOf(p) == IF p = "p1" THEN "c1" ELSE "c2"

StoreSubscriptions_Merge(current, s) ==
    [k \in DOMAIN current \cup DOMAIN s |->
        LET written == IF k \in DOMAIN s THEN s[k] ELSE <<>>
            Missing(sub) == channelIndex(written, sub.ChannelID) = 0
        IN  written \o (IF k \in DOMAIN current THEN SelectSeq(current[k], Missing)
                        ELSE <<>>)]

\* StoreSubscriptions: KVSet replaces the stored document by the one handed in
StoreSubscriptions(current, s) == s

\* GetSubscriptions at the top of AddSubscription: the goroutine decodes its own
\* copy of the document
BeginAdd(p, Feats) ==
    /\ inflight[p].pc \in {"idle", "done"}
    /\ \E features \in Feats :
        inflight' = [inflight EXCEPT ![p] =
            [pc |-> "read", op |-> "AddSubscription", channel |-> channelOf(p),
             repo |-> nameOR, features |-> features, snapshot |-> subscriptions,
             err |-> FALSE, written |-> FALSE, last |-> FALSE]]
    /\ UNCHANGED <<subscriptions, notificationOff, mutedUsers, config, call, verify,
                   webhookVars>>

\* GetSubscriptions in Unsubscribe
BeginUnsubscribe(p) ==
    /\ inflight[p].pc \in {"idle", "done"}
    /\ inflight' = [inflight EXCEPT ![p] =
            [pc |-> "read", op |-> "Unsubscribe", channel |-> channelOf(p),
             repo |-> nameOR, features |-> Empty, snapshot |-> subscriptions,
             err |-> FALSE, written |-> FALSE, last |-> FALSE]]
    /\ UNCHANGED <<subscriptions, notificationOff, mutedUsers, config, call, verify,
                   webhookVars>>

\* the goroutine that wrote last is p, and no other
markLast(p, written, err) ==
    [q \in Processes |->
        IF q = p THEN [inflight[p] EXCEPT !.pc = "done", !.written = written,
                                          !.err = err, !.last = written]
        ELSE IF written /\ inflight[q].pc # "idle" THEN [inflight[q] EXCEPT !.last = FALSE]
        ELSE inflight[q]]

FinishAdd_Atomic(p) ==
    /\ inflight[p].pc = "read"
    /\ inflight[p].op = "AddSubscription"
    /\ subscriptions' = StoreSubscriptions(subscriptions,
            AddSubscription(subscriptions, inflight[p].repo,
                [ChannelID |-> inflight[p].channel, CreatorID |-> "uAl",
                 Features |-> inflight[p].features, Flags |-> NoFlags,
                 Repository |-> inflight[p].repo]))
    /\ inflight' = markLast(p, TRUE, FALSE)
    /\ UNCHANGED <<notificationOff, mutedUsers, config, call, verify, webhookVars>>

\* the rest of AddSubscription: change the copy and store it
FinishAdd(p) ==
    /\ inflight[p].pc = "read"
    /\ inflight[p].op = "AddSubscription"
    /\ subscriptions' = StoreSubscriptions(subscriptions,
            AddSubscription(inflight[p].snapshot, inflight[p].repo,
                [ChannelID |-> inflight[p].channel, CreatorID |-> "uAl",
                 Features |-> inflight[p].features, Flags |-> NoFlags,
                 Repository |-> inflight[p].repo]))
    /\ inflight' = markLast(p, TRUE, FALSE)
    /\ UNCHANGED <<notificationOff, mutedUsers, config, call, verify, webhookVars>>

\* the rest of Unsubscribe: the document is stored only if an entry was removed
FinishUnsubscribe(p) ==
    /\ inflight[p].pc = "read"
    /\ inflight[p].op = "Unsubscribe"
    /\ \E res \in {Unsubscribe(inflight[p].snapshot, inflight[p].channel,
                               inflight[p].repo)} :
        /\ subscriptions' = IF res.written
                            THEN StoreSubscriptions(subscriptions, res.subs)
                            ELSE subscriptions
        /\ inflight' = markLast(p, res.written, res.err)
    /\ UNCHANGED <<notificationOff, mutedUsers, config, call, verify, webhookVars>>

RaceNext ==
    \E p \in Processes :
        \/ BeginAdd(p, {featurePulls, featureIssues})
        \/ BeginUnsubscribe(p)
        \/ FinishAdd(p)
        \/ FinishUnsubscribe(p)

SpecRace == Init /\ [][RaceNext]_vars

\* the entries of a document for a channel under a key
entriesFor(subs, key, channelID) ==
    LET OfChannel(sub) == sub.ChannelID = channelID
    IN  IF key \in DOMAIN subs THEN SelectSeq(subs[key], OfChannel) ELSE <<>>

\* C14: the last writer wins.  Once an operation has stored its document and
\* nothing was stored since, the stored entries of every other channel are those
\* of the document this operation had read, whatever a concurrent operation
\* stored in between; and every operation returns success.
C14_LastWriterWins ==
    \A p \in Processes :
        (inflight[p].pc = "done") =>
            /\ ~inflight[p].err
            /\ inflight[p].last =>
                \A q \in Processes \ {p} :
                    entriesFor(subscriptions, nameOR, channelOf(q))
                        = entriesFor(inflight[p].snapshot, nameOR, channelOf(q))

\* both operations returned success, p2 stored a subscription for c2, and the
\* document holds p1's subscription only: p2's change is lost
C14_Witness ==
    /\ inflight["p1"].pc = "done"
    /\ inflight["p2"].pc = "done"
    /\ ~inflight["p1"].err
    /\ ~inflight["p2"].err
    /\ inflight["p1"].op = "AddSubscription"
    /\ inflight["p2"].op = "AddSubscription"
    /\ inflight["p2"].written
    /\ inflight["p1"].last
    /\ entriesFor(subscriptions, nameOR, "c1") # <<>>
    /\ entriesFor(subscriptions, nameOR, "c2") = <<>>

-----------------------------------------------------------------------------
(* Specification of the exclude-org-member flag *)

ExcludeFlags == [ExcludeOrgMembers |-> TRUE, ExcludeOrgRepos |-> FALSE]

InitOrg ==
    /\ subscriptions = <<>>
    /\ notificationOff = <<>>
    /\ mutedUsers = [u \in UserIDs |-> Empty]
    /\ config \in {DefaultConfig, LockedConfig}
    /\ request = NoRequest
    /\ posts = <<>>
    /\ dms = <<>>
    /\ refreshes = <<>>
    /\ status = 0
    /\ call = NoCall
    /\ verify = NoVerify
    /\ inflight = NoInflight

\* an eligible request of every kind, sent by a member or a non-member of the
\* organization, with the credential of the creator "uAl" stored or missing
OrgRequests ==
    {[Sample(kind) EXCEPT !.orgMembers = members, !.connected = connected] :
        kind \in EventKinds, members \in {{}, {userEve}},
        connected \in {UserIDs, UserIDs \ {"uAl"}}}

OrgNext ==
    \/ SubscribeStep({ownerO}, {Empty, repoR}, {"uAl", "uBo"}, {AllFeatures},
                     {NoFlags, ExcludeFlags}, {TRUE})
    \/ UnsubscribeStep({nameOR, keyO})
    \/ WebhookStep(OrgRequests)
    \/ Respond

SpecOrg == InitOrg /\ [][OrgNext]_vars

excludes(r, sub) == sub.Flags.ExcludeOrgMembers /\ sub.CreatorID \in r.connected

-----------------------------------------------------------------------------
(* Specification of the actor notifications *)

\* events of the four kinds that notify actors, on a public repository and on a
\* private one under every answer of the permission oracle; the text mentions
\* two users, and the comment has two assignees
ActorRequests ==
    {[BaseRequest EXCEPT !.kind = ka[1], !.action = ka[2], !.state = "APPROVED",
                         !.sender = sender, !.author = userAl, !.assignee = assignee,
                         !.reviewer = userBo, !.mentions = <<userBo, userAli>>,
                         !.assignees = <<userAli, userBo>>, !.private = pc[1],
                         !.canRead = pc[2]] :
        ka \in {<<"pull_request", "opened">>, <<"pull_request", "closed">>,
                <<"pull_request", "reopened">>, <<"pull_request", "assigned">>,
                <<"pull_request", "review_requested">>, <<"pull_request", "edited">>,
                <<"issues", "opened">>, <<"issues", "closed">>, <<"issues", "reopened">>,
                <<"issues", "assigned">>,
                <<"issue_comment", "created">>, <<"issue_comment", "edited">>,
                <<"pull_request_review", "submitted">>},
        sender \in {userEve, userAl},
        assignee \in {userAli, userAl},
        pc \in ({TRUE} \X SUBSET UserIDs) \cup {<<FALSE, UserIDs>>}}

ActorNext ==
    \/ WebhookStep(ActorRequests)
    \/ Respond

SpecActor == Init /\ [][ActorNext]_vars

\* the direct messages of the authorship/assignment path
ownershipTypes == {"custom_git_author", "custom_git_assigned", "custom_git_review_request"}

\* C17: a pull-request or issue event yields at most one direct message on the
\* authorship/assignment path, however many users its text mentions: to the
\* requested reviewer for review_requested, to the author for closed and
\* reopened, to the assignee for assigned, and none for any other action.
C17_OneOwnershipMessage ==
    (Handled /\ request.kind \in {"pull_request", "issues"}) =>
        /\ Cardinality({i \in 1..Len(dms) : dms[i].type \in ownershipTypes}) <= 1
        /\ \A i \in 1..Len(dms) :
            /\ dms[i].type = "custom_git_review_request" =>
                    /\ request.kind = "pull_request"
                    /\ request.action = "review_requested"
                    /\ dms[i].user = getGitHubToUserIDMapping(request.reviewer)
            /\ dms[i].type = "custom_git_author" =>
                    /\ request.action \in {"closed", "reopened"}
                    /\ dms[i].user = getGitHubToUserIDMapping(request.author)
            /\ dms[i].type = "custom_git_assigned" =>
                    /\ request.action = "assigned"
                    /\ dms[i].user = getGitHubToUserIDMapping(request.assignee)

C17_Witness ==
    /\ Handled
    /\ request.kind = "issues"
    /\ request.action = "closed"
    /\ Len(request.mentions) = 2
    /\ request.assignee = userAli
    /\ request.sender = userEve
    /\ dms = <<[user |-> "uAl", type |-> "custom_git_author"]>>

\* C18: for an event on a private repository no direct message, on any path,
\* goes to a user for whom the live read of the repository fails, and the
\* request is still answered without an error status.
C18_PrivateMessagesNeedPermission ==
    (Handled /\ request.private) =>
        /\ \A i \in 1..Len(dms) :
                /\ dms[i].user \in request.connected
                /\ dms[i].user \in request.canRead
                /\ dms[i].user \notin request.readErr
        /\ status = 200

C18_Witness ==
    /\ Handled
    /\ request.private
    /\ request.kind = "issue_comment"
    /\ request.action = "created"
    /\ request.sender = userEve
    /\ request.mentions = <<userBo, userAli>>
    /\ request.canRead = {"uAli"}
    /\ dms = <<[user |-> "uAli", type |-> "custom_git_mention"],
               [user |-> "uAli", type |-> "custom_git_assignee"]>>
    /\ status = 200

-----------------------------------------------------------------------------
(* Specification of a failing read of the subscriptions document *)

\* an eligible request of every kind, with the KV read of the subscriptions
\* document succeeding or failing
ReadFailureRequests ==
    {[Sample(kind) EXCEPT !.kvFail = kvFail] :
        kind \in EventKinds, kvFail \in {{}, {"subscriptions"}}}

ReadFailureNext ==
    \/ SubscribeStep({ownerO}, {Empty, repoR}, {"uAl"}, {AllFeatures}, {NoFlags}, {TRUE})
    \/ WebhookStep(ReadFailureRequests)
    \/ Respond

SpecReadFailure == Init /\ [][ReadFailureNext]_vars

\* C20: when the read of the subscriptions document fails while an event is
\* handled, the matcher returns no subscription, the event has no channel post,
\* and the request is answered as usual.
C20_ReadFailureMeansNoSubscribers ==
    (Handled /\ "subscriptions" \in request.kvFail) =>
        /\ GetSubscribedChannelsForRepository(request) = <<>>
        /\ posts = <<>>
        /\ status = 200

C20_Witness ==
    /\ Handled
    /\ "subscriptions" \in request.kvFail
    /\ request.kind = "issue_comment"
    /\ Len(candidates(request)) = 2
    /\ posts = <<>>
    /\ dms # <<>>
    /\ status = 200

-----------------------------------------------------------------------------
(* Specification of events whose sender is also a possible recipient *)

\* the four kinds that notify actors, sent by a connected user who may also be
\* the author, the assignee, the requested reviewer, mentioned and an assignee
SelfRequests ==
    {[BaseRequest EXCEPT !.kind = ka[1], !.action = ka[2], !.state = "APPROVED",
                         !.sender = sender, !.author = author, !.assignee = assignee,
                         !.reviewer = reviewer,
                         !.mentions = <<userBo, userAli, userAl>>,
                         !.assignees = <<userAli, userBo, userAl>>] :
        ka \in {<<"pull_request", "opened">>, <<"pull_request", "closed">>,
                <<"pull_request", "reopened">>, <<"pull_request", "assigned">>,
                <<"pull_request", "review_requested">>,
                <<"issues", "closed">>, <<"issues", "reopened">>,
                <<"issues", "assigned">>,
                <<"issue_comment", "created">>,
                <<"pull_request_review", "submitted">>},
        sender \in {userAl, userAli, userBo},
        author \in {userAl, userBo},
        assignee \in {userAli, userAl},
        reviewer \in {userBo, userAli}}

SelfNext ==
    \/ WebhookStep(SelfRequests)
    \/ Respond

SpecSelf == Init /\ [][SelfNext]_vars

\* C21: no direct message of any actor-notification path goes to the chat user
\* connected to the login of the event's sender.
C21_NoMessageToSender ==
    Handled =>
        \A i \in 1..Len(dms) : dms[i].user # getGitHubToUserIDMapping(request.sender)

C21_Witness ==
    /\ Handled
    /\ request.kind = "issue_comment"
    /\ request.sender = userAli
    /\ request.author = userAl
    /\ dms = <<[user |-> "uBo", type |-> "custom_git_mention"],
               [user |-> "uAl", type |-> "custom_git_author"],
               [user |-> "uBo", type |-> "custom_git_assignee"]>>

-----------------------------------------------------------------------------
(* Specification of the feature predicates and the feature gates *)

labelIssues == featureIssues
labelStars  == featureStars
labelMerged == featurePullsMerged

\* feature lists of the vocabulary, alone and combined, and lists whose label
\* filter is named like a feature
FeatureLists ==
    { featurePulls,
      featurePullsMerged,
      featureList(<<featurePulls, featurePullsMerged>>),
      featureIssues,
      featureIssueCreation,
      featureList(<<featurePulls, labelFeature(labelIssues)>>),
      featureList(<<featurePulls, labelFeature(labelMerged)>>),
      featureList(<<featureIssues, labelFeature(labelStars)>>) }

\* pull-request, issue and star events on an object that carries the labels
\* "issues", "stars" and "pulls_merged", so that every label filter is satisfied
FeatureRequests ==
    {[BaseRequest EXCEPT !.kind = kind, !.action = action,
                         !.labels = <<labelIssues, labelStars, labelMerged>>] :
        kind \in {"pull_request", "issues"}, action \in {"opened", "closed", "reopened"}}
    \cup {[BaseRequest EXCEPT !.kind = "star", !.action = "created"]}

\* the feature predicates evaluated on a stored subscription
FeaturesStep ==
    /\ Idle
    /\ \E key \in DOMAIN subscriptions :
        \E i \in 1..Len(subscriptions[key]) :
            \E sub \in {subscriptions[key][i]} :
                /\ call' = [op |-> "features", features |-> sub.Features,
                            Pulls |-> Pulls(sub), PullsMerged |-> PullsMerged(sub),
                            Issues |-> Issues(sub), IssueCreations |-> IssueCreations(sub),
                            Pushes |-> Pushes(sub), Creates |-> Creates(sub),
                            Deletes |-> Deletes(sub), IssueComments |-> IssueComments(sub),
                            PullReviews |-> PullReviews(sub), Stars |-> Stars(sub)]
                /\ UNCHANGED <<subscriptions, notificationOff, mutedUsers, config, verify,
                               inflight, webhookVars>>

FeaturesNext ==
    \/ SubscribeStep({ownerO}, {repoR}, {"uAl"}, FeatureLists, {NoFlags}, {TRUE})
    \/ FeaturesStep
    \/ WebhookStep(FeatureRequests)
    \/ Respond

SpecFeatures == Init /\ [][FeaturesNext]_vars

\* the feature name is one of the comma-separated elements of the feature list
listed(features, name) == name \in Range(Split(features, Comma))

\* C22: for a pull-request event with action opened or closed, on an object whose
\* labels satisfy every label filter, a channel gets one post for each of its
\* subscriptions that lists pulls, or lists pulls_merged when the action is
\* closed, and no other post; a subscription that lists pulls is posted to for
\* "opened".
C22_PullFeatureGate ==
    (/\ Handled
     /\ request.kind = "pull_request"
     /\ request.action \in {"opened", "closed"})
    => \A c \in Channels :
            LET ToChannel(post) == post.channel = c
                Wanted(sub) ==
                    /\ sub.ChannelID = c
                    /\ \/ listed(sub.Features, <<"p","u","l","l","s">>)
                       \/ /\ listed(sub.Features, <<"p","u","l","l","s","_","m","e","r","g","e","d">>)
                          /\ request.action = "closed"
            IN  countOf(posts, ToChannel) = countOf(candidates(request), Wanted)

\* C23: for an issue event with action opened, closed or reopened, on an object
\* whose labels satisfy every label filter, a channel gets one post for each of
\* its subscriptions that lists issues, or lists issue_creations when the action
\* is opened, and no other post (no feature list names both features).
C23_IssueFeatureGate ==
    (/\ Handled
     /\ request.kind = "issues"
     /\ request.action \in {"opened", "closed", "reopened"})
    => \A c \in Channels :
            LET ToChannel(post) == post.channel = c
                Wanted(sub) ==
                    /\ sub.ChannelID = c
                    /\ \/ listed(sub.Features, <<"i","s","s","u","e","s">>)
                       \/ /\ listed(sub.Features,
                                    <<"i","s","s","u","e","_","c","r","e","a","t","i","o","n","s">>)
                          /\ request.action = "opened"
            IN  countOf(posts, ToChannel) = countOf(candidates(request), Wanted)

\* C24: each feature predicate of a subscription is true exactly when its
\* feature name is one of the comma-separated elements of the feature list.
C24_PredicateIsMembership ==
    call.op = "features" =>
        /\ call.Pulls <=> listed(call.features, featurePulls)
        /\ call.PullsMerged <=> listed(call.features, featurePullsMerged)
        /\ call.Issues <=> listed(call.features, featureIssues)
        /\ call.IssueCreations <=> listed(call.features, featureIssueCreation)
        /\ call.Pushes <=> listed(call.features, featurePushes)
        /\ call.Creates <=> listed(call.features, featureCreates)
        /\ call.Deletes <=> listed(call.features, featureDeletes)
        /\ call.IssueComments <=> listed(call.features, featureIssueComments)
        /\ call.PullReviews <=> listed(call.features, featurePullReviews)
        /\ call.Stars <=> listed(call.features, featureStars)

-----------------------------------------------------------------------------
(* Specification of mute lists whose names contain one another *)

\* a comment by al, ali or eve on an issue of bo, with or without an assignee
MuteNameRequests ==
    {[BaseRequest EXCEPT !.kind = "issue_comment", !.action = "created",
                         !.sender = sender, !.author = userBo, !.assignees = assignees] :
        sender \in {userAl, userAli, userEve},
        assignees \in {<<>>, <<userBo>>, <<userAli>>}}

MuteNamesNext ==
    \/ MuteAddStep({"uBo"}, {userAl, userAli, userEve})
    \/ UnmuteStep({"uBo"}, {userAl, userAli, userEve})
    \/ WebhookStep(MuteNameRequests)
    \/ Respond

SpecMuteNames == Init /\ [][MuteNamesNext]_vars

\* C25: the author of an issue is notified of a comment exactly when the
\* commenter is not an element of the author's stored mute list: muting a name
\* suppresses that sender only, not a sender whose name is part of it.
C25_MuteIsExactMatch ==
    (/\ Handled
     /\ request.kind = "issue_comment"
     /\ request.action = "created"
     /\ request.author = userBo
     /\ request.sender # userBo)
    => ((\E i \in 1..Len(dms) : dms[i] = [user |-> "uBo", type |-> "custom_git_author"])
            <=> ~hasMuted("uBo", request.sender))

-----------------------------------------------------------------------------
(* Specification of the subscription matcher *)

\* pushes to o/r, to the same repository spelled in upper case, and to o/s; public
\* and private under three answers of the permission oracle
MatcherRequests ==
    {[BaseRequest EXCEPT !.repo = name, !.private = pc[1], !.canRead = pc[2]] :
        name \in {nameOR, <<"O", "/", "R">>, nameOS},
        pc \in {<<FALSE, UserIDs>>, <<TRUE, {}>>, <<TRUE, {"uAl"}>>,
                <<TRUE, {"uAl", "uBo"}>>}}

MatcherNext ==
    \/ SubscribeStep({ownerO}, {Empty, repoR}, {"uAl", "uBo"}, {AllFeatures}, {NoFlags},
                     {TRUE})
    \/ UnsubscribeStep({nameOR, keyO})
    \/ WebhookStep(MatcherRequests)
    \/ Respond

SpecMatcher == Init /\ [][MatcherNext]_vars

\* C26: the matcher returns the list stored under the lower-cased full name
\* followed by the list stored under the owner's key "owner/", each in stored
\* order, less the subscriptions whose creator cannot read a private repository,
\* and nothing is removed for appearing twice; a push is posted once per element.
C26_RepoThenOrgNoDedup ==
    Handled =>
        LET name      == ToLower(request.repo)
            ownerKey  == SubSeq(name, 1, IndexOf(name, Slash))
            repoLevel == IF name \in DOMAIN subscriptions THEN subscriptions[name] ELSE <<>>
            orgLevel  == IF ownerKey \in DOMAIN subscriptions
                         THEN subscriptions[ownerKey] ELSE <<>>
            Visible(sub) == request.private => sub.CreatorID \in request.canRead
            expected  == SelectSeq(repoLevel \o orgLevel, Visible)
        IN  /\ GetSubscribedChannelsForRepository(request) = expected
            /\ Len(posts) = Len(expected)
            /\ \A i \in 1..Len(posts) : posts[i].channel = expected[i].ChannelID

C26_Witness ==
    /\ Handled
    /\ request.repo = <<"O", "/", "R">>
    /\ DOMAIN subscriptions = {nameOR, keyO}
    /\ Len(subscriptions[nameOR]) = 1
    /\ Len(subscriptions[keyO]) = 1
    /\ subscriptions[nameOR][1].ChannelID = "c1"
    /\ subscriptions[keyO][1].ChannelID = "c1"
    /\ posts = <<[channel |-> "c1", type |-> "custom_git_push"],
                 [channel |-> "c1", type |-> "custom_git_push"]>>

-----------------------------------------------------------------------------
(* Specification of the filters of the fan-out loops *)

kindFeatures ==
    <<featurePulls, featureIssues, featureIssueComments, featurePullReviews>>

\* every posting kind without a filter, with the filter "bug", with the filter
\* "wip", and pull requests alone
LabelFeatures ==
    { featureList(kindFeatures),
      featureList(kindFeatures \o <<bugFilter>>),
      featureList(kindFeatures \o <<wipFilter>>),
      featurePulls }

InitLabels ==
    /\ subscriptions = <<>>
    /\ notificationOff = <<>>
    /\ mutedUsers = [u \in UserIDs |-> Empty]
    /\ config = LockedConfig
    /\ request = NoRequest
    /\ posts = <<>>
    /\ dms = <<>>
    /\ refreshes = <<>>
    /\ status = 0
    /\ call = NoCall
    /\ verify = NoVerify
    /\ inflight = NoInflight

\* the five kinds whose loops read labels, with posted and unposted actions, on an
\* object under each label set; "labeled" events apply "bug" or "wip"
LabelShapes ==
    {[BaseRequest EXCEPT !.kind = kind, !.action = action, !.labels = labels] :
        kind \in {"pull_request", "issues"},
        action \in {"opened", "closed", "reopened", "edited"}, labels \in LabelSets}
    \cup
    {[BaseRequest EXCEPT !.kind = kind, !.action = "labeled", !.labels = labels,
                         !.label = label] :
        kind \in {"pull_request", "issues"}, labels \in LabelSets,
        label \in {labelBug, labelWip}}
    \cup
    {[BaseRequest EXCEPT !.kind = "issue_comment", !.action = action, !.labels = labels] :
        action \in {"created", "edited"}, labels \in LabelSets}
    \cup
    {[BaseRequest EXCEPT !.kind = "pull_request_review", !.action = "submitted",
                         !.state = state, !.labels = labels] :
        state \in {"APPROVED", "DISMISSED"}, labels \in LabelSets}
    \cup
    {[BaseRequest EXCEPT !.kind = "pull_request_review_comment", !.action = "created",
                         !.labels = labels] :
        labels \in LabelSets}

\* each shape sent by a member and by a non-member of the locked organization
LabelRequests ==
    {[r EXCEPT !.orgMembers = members] : r \in LabelShapes, members \in {{}, {userEve}}}

LabelsNext ==
    \/ SubscribeStep({ownerO}, {repoR}, {"uAl"}, LabelFeatures, {NoFlags, ExcludeFlags},
                     {TRUE})
    \/ UnsubscribeStep({nameOR})
    \/ WebhookStep(LabelRequests)
    \/ Respond

SpecLabels == InitLabels /\ [][LabelsNext]_vars

\* the event gets as far as the loop over the matched subscriptions
reachesLoop(r) ==
    CASE r.kind = "pull_request" -> pullRequestEligible(r)
      [] r.kind = "issues" -> issueEligible(r) /\ ~autoLabelled(r)
      [] r.kind = "issue_comment" -> issueCommentEligible(r)
      [] r.kind = "pull_request_review" -> reviewEligible(r)
      [] r.kind = "pull_request_review_comment" -> TRUE
      [] OTHER -> FALSE

\* the tests a subscription must pass in the loop of the event's kind
passesFilters(r, sub) ==
    /\ ~excludeConfigOrgMember(r, sub)
    /\ labelContained(sub, r.labels)
    /\ CASE r.kind = "pull_request" -> prFeatureGate(r, sub) /\ prLabeledGate(r, sub)
         [] r.kind = "issues" -> issueFeatureGate(r, sub) /\ issueLabeledGate(r, sub)
         [] r.kind = "issue_comment" -> IssueComments(sub)
         [] OTHER -> PullReviews(sub)

postTypeOf(r) ==
    CASE r.kind = "pull_request" -> "custom_git_pr"
      [] r.kind = "issues" -> "custom_git_issue"
      [] r.kind = "issue_comment" -> "custom_git_comment"
      [] r.kind = "pull_request_review" -> "custom_git_pull_review"
      [] OTHER -> "custom_git_pull_review_comment"

noFilter(sub) == ~Contains(sub.Features, labelPrefix)

\* the feature of the event's kind is in the subscription's list
kindListed(r, sub) ==
    listed(sub.Features,
           CASE r.kind = "pull_request" -> featurePulls
             [] r.kind = "issues" -> featureIssues
             [] r.kind = "issue_comment" -> featureIssueComments
             [] OTHER -> featurePullReviews)

\* C30: for the five kinds that carry labels, a channel gets no more posts than
\* it has subscriptions that are unfiltered or whose filter is among the current
\* labels of the issue or pull request; and for an action other than "labeled"
\* that reaches the loop, an unfiltered subscription with the kind's feature whose
\* sender is not excluded gets its post whatever the labels are.
C30_LabelFilter ==
    (/\ Handled
     /\ request.kind \in {"pull_request", "issues", "issue_comment",
                          "pull_request_review", "pull_request_review_comment"})
    => \A c \in Channels :
            LET ToChannel(post) == post.channel = c
                Admitted(sub) ==
                    /\ sub.ChannelID = c
                    /\ \/ noFilter(sub)
                       \/ \E i \in 1..Len(request.labels) : hasFilter(sub, request.labels[i])
                Unrestricted(sub) ==
                    /\ sub.ChannelID = c
                    /\ noFilter(sub)
                    /\ kindListed(request, sub)
                    /\ ~excludeConfigOrgMember(request, sub)
            IN  /\ countOf(posts, ToChannel) <= countOf(candidates(request), Admitted)
                /\ (reachesLoop(request) /\ request.action # "labeled")
                        => countOf(posts, ToChannel)
                                >= countOf(candidates(request), Unrestricted)

C30_Witness ==
    /\ Handled
    /\ request.kind = "issue_comment"
    /\ request.action = "created"
    /\ request.labels = <<labelWip>>
    /\ nameOR \in DOMAIN subscriptions
    /\ Len(subscriptions[nameOR]) = 2
    /\ subscriptions[nameOR][1].ChannelID = "c1"
    /\ hasFilter(subscriptions[nameOR][1], labelBug)
    /\ subscriptions[nameOR][2].ChannelID = "c2"
    /\ noFilter(subscriptions[nameOR][2])
    /\ IssueComments(subscriptions[nameOR][2])
    /\ ~ExcludeOrgMembers(subscriptions[nameOR][2])
    /\ posts = <<[channel |-> "c2", type |-> "custom_git_comment"]>>

-----------------------------------------------------------------------------
(* Specification of the frame of the two store commands *)

\* AddSubscription called with a key and a subscription, as Subscribe calls it
AddSubscriptionStep(Keys, Feats) ==
    /\ Idle
    /\ \E repo \in Keys, channelID \in Channels, features \in Feats :
           \E sub \in {[ChannelID |-> channelID, CreatorID |-> "uAl", Features |-> features,
                        Flags |-> NoFlags, Repository |-> repo]} :
               /\ subscriptions' = AddSubscription(subscriptions, repo, sub)
               /\ call' = [op |-> "AddSubscription", channel |-> channelID, repo |-> repo,
                           sub |-> sub,
                           previous |-> storedFeatures(subscriptions, channelID, repo)]
               /\ UNCHANGED <<notificationOff, mutedUsers, config, verify, inflight, webhookVars>>

\* arguments of the unsubscribe command: a repository, the same in upper case,
\* an organization with and without its slash, and no repository at all
FrameArgs == {nameOR, <<"O", "/", "R">>, keyO, ownerO, Empty}

FrameNext ==
    \/ AddSubscriptionStep({nameOR, keyO}, {featurePulls, featureIssues})
    \/ UnsubscribeStep(FrameArgs)

SpecFrame == Init /\ [][FrameNext]_vars

\* the list stored under the key, empty when the key is absent
listAt(subs, key) == IF key \in DOMAIN subs THEN subs[key] ELSE <<>>

\* every key but this one keeps its list
otherKeysKept(key) ==
    /\ DOMAIN subscriptions \ {key} = DOMAIN subscriptions' \ {key}
    /\ \A k \in DOMAIN subscriptions \ {key} : subscriptions'[k] = subscriptions[k]

\* C28: AddSubscription for a channel that has an entry under the key puts the new
\* subscription at that entry's position and leaves the length of the list and its
\* other entries as they were; for a channel without an entry it appends the
\* subscription at the end; the lists of all other keys are unchanged.
C28_AddSubscriptionFrame ==
    [][call'.op = "AddSubscription" =>
         LET key == call'.repo
             old == listAt(subscriptions, key)
             new == listAt(subscriptions', key)
         IN  /\ key \in DOMAIN subscriptions'
             /\ otherKeysKept(key)
             /\ IF \E i \in 1..Len(old) : old[i].ChannelID = call'.channel
                THEN /\ Len(new) = Len(old)
                     /\ \A i \in 1..Len(old) :
                            new[i] = IF old[i].ChannelID = call'.channel
                                     THEN call'.sub ELSE old[i]
                ELSE new = Append(old, call'.sub)]_vars

C28_Witness ==
    /\ call.op = "AddSubscription"
    /\ call.repo = nameOR
    /\ call.channel = "c1"
    /\ call.previous = featurePulls
    /\ call.sub.Features = featureIssues
    /\ keyO \in DOMAIN subscriptions
    /\ Len(subscriptions[keyO]) = 2
    /\ nameOR \in DOMAIN subscriptions
    /\ Len(subscriptions[nameOR]) = 2
    /\ subscriptions[nameOR][1] = call.sub
    /\ subscriptions[nameOR][2].ChannelID = "c2"

\* the key an argument of the unsubscribe command names
argKey(repoArg) ==
    LET low == ToLower(repoArg)
    IN  IF Contains(low, <<Slash>>) THEN low ELSE low \o <<Slash>>

\* C29: Unsubscribe with an argument that names a repository or an organization
\* removes the channel's entry from the list under the lower-cased key, keeps the
\* other entries of that list in order and the lists of all other keys, and
\* reports success; when the channel has no entry under the key it reports
\* success and writes nothing.
C29_UnsubscribeFrame ==
    [][(call'.op = "Unsubscribe" /\ call'.repo # Empty) =>
         LET key == argKey(call'.repo)
             old == listAt(subscriptions, key)
             Others(sub) == sub.ChannelID # call'.channel
         IN  /\ ~call'.err
             /\ IF \E i \in 1..Len(old) : old[i].ChannelID = call'.channel
                THEN /\ call'.written
                     /\ otherKeysKept(key)
                     /\ key \in DOMAIN subscriptions'
                     /\ subscriptions'[key] = SelectSeq(old, Others)
                ELSE /\ ~call'.written
                     /\ subscriptions' = subscriptions]_vars

C29_Witness ==
    /\ call.op = "Unsubscribe"
    /\ call.repo = <<"O", "/", "R">>
    /\ call.channel = "c1"
    /\ call.written
    /\ ~call.err
    /\ nameOR \in DOMAIN subscriptions
    /\ Len(subscriptions[nameOR]) = 1
    /\ subscriptions[nameOR][1].ChannelID = "c2"
    /\ keyO \in DOMAIN subscriptions
    /\ Len(subscriptions[keyO]) = 2

-----------------------------------------------------------------------------
(* Specification of the notification-disabled list alone *)

\* names the two commands are given: two repositories, one of them also in upper
\* case, and an organization key
DisabledNames == {nameOR, nameOS, <<"O", "/", "R">>, keyO}

DisabledNext ==
    \/ DisableStep(DisabledNames)
    \/ EnableStep(DisabledNames)

SpecDisabled == Init /\ [][DisabledNext]_vars

\* no name is stored twice
noDuplicates(list) ==
    \A i, j \in 1..Len(list) : list[i] = list[j] => i = j

\* C31: the notification-disabled list, empty at first, never comes to hold a
\* name twice;
\* StoreExcludedNotificationRepo(R) leaves R in the list, changes nothing when R
\* was already there, and a second call changes nothing more;
\* EnableNotificationTurnedOffRepo(R) leaves R out of the list and every other
\* entry in its place.
C31_DisabledListIsSet ==
    [][/\ noDuplicates(notificationOff) => noDuplicates(notificationOff')
       /\ call'.op = "StoreExcludedNotificationRepo" =>
            /\ \A name \in DisabledNames :
                    name = call'.repo => IsNotificationOff(BaseRequest, name)'
            /\ ItemExists(notificationOff, call'.repo) => notificationOff' = notificationOff
            /\ ~ItemExists(notificationOff, call'.repo)
                    => notificationOff' = Append(notificationOff, call'.repo)
            /\ StoreExcludedNotificationRepo(notificationOff', call'.repo)
                    = notificationOff'
       /\ call'.op = "EnableNotificationTurnedOffRepo" =>
            LET Other(name) == name # call'.repo
            IN  /\ \A name \in DisabledNames :
                        name = call'.repo => ~IsNotificationOff(BaseRequest, name)'
                /\ notificationOff' = SelectSeq(notificationOff, Other)]_vars

C31_Witness ==
    /\ call = [op |-> "EnableNotificationTurnedOffRepo", repo |-> nameOR]
    /\ notificationOff = <<nameOS, <<"O", "/", "R">>, keyO>>

-----------------------------------------------------------------------------
(* Specification of the mute command *)

\* getMutedUsernames as the commands call it: a failed KVGet yields no names
readMutedUsernames(blob, readErr) ==
    IF readErr THEN <<>> ELSE getMutedUsernames(blob)

\* handleUnmuteAll: the blob stored for the user afterwards
handleUnmuteAll(blob) == Empty

\* handleMuteCommand: the blob stored for the user after the sub-command;
\* readErr: the KVGet of the user's list returns an error
handleMuteCommand(blob, command, username, readErr) ==
    LET seen == Join(readMutedUsernames(blob, readErr), Comma)
    IN  CASE command = "add" ->
                IF username \in Range(readMutedUsernames(blob, readErr)) THEN blob
                ELSE IF Contains(username, <<Comma>>) THEN blob
                ELSE handleMuteAdd(seen, username)
          [] command = "delete" -> handleUnmute(seen, username)
          [] command = "delete-all" -> handleUnmuteAll(blob)
          [] OTHER -> blob

commaName == <<"a", ",", "b">>

MuteCommandStep(Users, Names, ReadErrs) ==
    /\ Idle
    /\ \E userID \in Users, username \in Names, readErr \in ReadErrs,
          command \in {"add", "delete", "delete-all"} :
               /\ mutedUsers' = [mutedUsers EXCEPT
                                    ![userID] = handleMuteCommand(@, command, username, readErr)]
               /\ call' = [op |-> "handleMuteCommand", user |-> userID,
                           command |-> command, username |-> username,
                           readErr |-> readErr]
               /\ UNCHANGED <<subscriptions, notificationOff, config, verify, inflight, webhookVars>>

MuteCommandNext ==
    MuteCommandStep({"uBo", "uAl"}, {userAl, userEve, userAli, commaName}, {FALSE, TRUE})

SpecMuteCommand == Init /\ [][MuteCommandNext]_vars

\* C32: after each mute command of a user the stored list holds no name twice
\* and no name with a comma; add of a name that is muted or contains a comma
\* changes nothing and add of another name puts it at the end; delete takes out
\* exactly that name; delete-all leaves the list empty.
C32_MuteListIsSet ==
    [][call'.op = "handleMuteCommand" =>
         LET old == getMutedUsernames(mutedUsers[call'.user])
             new == getMutedUsernames(mutedUsers'[call'.user])
             Other(name) == name # call'.username
         IN  /\ noDuplicates(new)
             /\ \A i \in 1..Len(new) : ~Contains(new[i], <<Comma>>)
             /\ \A u \in UserIDs \ {call'.user} : mutedUsers'[u] = mutedUsers[u]
             /\ call'.command = "add" =>
                    new = IF \/ call'.username \in Range(old)
                             \/ Contains(call'.username, <<Comma>>)
                          THEN old ELSE Append(old, call'.username)
             /\ call'.command = "delete" => new = SelectSeq(old, Other)
             /\ call'.command = "delete-all" => new = <<>>]_vars

-----------------------------------------------------------------------------
(* The mention path and the assignee path of one comment *)

\* C33: for a created issue comment, a connected user who is mentioned in the
\* comment and is an assignee of the issue, is neither the sender nor the author
\* of the issue and has muted nobody, gets two direct messages: one of the
\* mention path, then one of the assignee path.
C33_MentionAndAssigneeBothFire ==
    (/\ Handled
     /\ request.kind = "issue_comment"
     /\ request.action = "created")
    => \A login \in {userBo, userAli} :
          LET userID == getGitHubToUserIDMapping(login)
              ToUser(dm) == dm.user = userID
              Mention(dm) == dm = [user |-> userID, type |-> "custom_git_mention"]
              Assignee(dm) == dm = [user |-> userID, type |-> "custom_git_assignee"]
          IN  (/\ login \in Range(request.mentions)
               /\ login \in Range(request.assignees)
               /\ login # request.sender
               /\ login # request.author
               /\ mutedUsers[userID] = Empty)
              => /\ countOf(dms, Mention) = 1
                 /\ countOf(dms, Assignee) = 1
                 /\ countOf(dms, ToUser) = 2

C33_Witness ==
    /\ Handled
    /\ request.kind = "issue_comment"
    /\ request.action = "created"
    /\ request.mentions = <<userAli>>
    /\ request.assignees = <<userAli>>
    /\ request.author = userBo
    /\ request.sender = userEve
    /\ \E i, j \in 1..Len(dms) :
            /\ i < j
            /\ dms[i] = [user |-> "uAli", type |-> "custom_git_mention"]
            /\ dms[j] = [user |-> "uAli", type |-> "custom_git_assignee"]

-----------------------------------------------------------------------------
(* "labeled" events and subscriptions without a filter *)

\* C34: for a "labeled" pull-request or issue event, a channel whose matched
\* subscriptions have no label filter gets no post, and every post goes to the
\* channel of a matched subscription whose filter is the applied label.
C34_LabeledSkipsUnfiltered ==
    (/\ Handled
     /\ request.kind \in {"pull_request", "issues"}
     /\ request.action = "labeled")
    => /\ \A c \in Channels :
            (\A sub \in Range(candidates(request)) : sub.ChannelID = c => noFilter(sub))
                => \A i \in 1..Len(posts) : posts[i].channel # c
       /\ \A i \in 1..Len(posts) :
            \E sub \in Range(candidates(request)) :
                /\ sub.ChannelID = posts[i].channel
                /\ hasFilter(sub, request.label)

C34_Witness ==
    /\ Handled
    /\ request.kind = "issues"
    /\ request.action = "labeled"
    /\ request.label = labelBug
    /\ request.labels = <<labelBug>>
    /\ request.orgMembers = {}
    /\ nameOR \in DOMAIN subscriptions
    /\ Len(subscriptions[nameOR]) = 2
    /\ subscriptions[nameOR][1].ChannelID = "c1"
    /\ subscriptions[nameOR][1].Features = featureList(kindFeatures)
    /\ subscriptions[nameOR][2].ChannelID = "c2"
    /\ hasFilter(subscriptions[nameOR][2], labelBug)
    /\ posts = <<[channel |-> "c2", type |-> "custom_git_issue"]>>

-----------------------------------------------------------------------------
(* Specification of concurrent store operations on different keys *)

\* the key each goroutine works on
keyOf(p) == IF p = "p1" THEN nameOR ELSE nameOS

\* GetSubscriptions at the top of AddSubscription, for the goroutine's own key
BeginAddAt(p, Feats) ==
    /\ inflight[p].pc \in {"idle", "done"}
    /\ \E features \in Feats, channelID \in Channels :
        inflight' = [inflight EXCEPT ![p] =
            [pc |-> "read", op |-> "AddSubscription", channel |-> channelID,
             repo |-> keyOf(p), features |-> features, snapshot |-> subscriptions,
             err |-> FALSE, written |-> FALSE, last |-> FALSE]]
    /\ UNCHANGED <<subscriptions, notificationOff, mutedUsers, config, call, verify,
                   webhookVars>>

\* GetSubscriptions in Unsubscribe, for the goroutine's own key
BeginUnsubscribeAt(p) ==
    /\ inflight[p].pc \in {"idle", "done"}
    /\ \E channelID \in Channels :
        inflight' = [inflight EXCEPT ![p] =
            [pc |-> "read", op |-> "Unsubscribe", channel |-> channelID,
             repo |-> keyOf(p), features |-> Empty, snapshot |-> subscriptions,
             err |-> FALSE, written |-> FALSE, last |-> FALSE]]
    /\ UNCHANGED <<subscriptions, notificationOff, mutedUsers, config, call, verify,
                   webhookVars>>

RaceKeysNext ==
    \E p \in Processes :
        \/ BeginAddAt(p, {featurePulls})
        \/ BeginUnsubscribeAt(p)
        \/ FinishAdd(p)
        \/ FinishUnsubscribe(p)

SpecRaceKeys == Init /\ [][RaceKeysNext]_vars

\* C35: the document is stored whole.  Once an operation on one key has stored
\* its document and nothing was stored since, the list under the other
\* operation's key is the one of the document this operation had read, whatever
\* the other operation stored under its own key in between.
C35_WholeDocumentLastWriterWins ==
    \A p \in Processes :
        (inflight[p].pc = "done" /\ inflight[p].last) =>
            \A q \in Processes \ {p} :
                /\ keyOf(q) \in DOMAIN subscriptions <=> keyOf(q) \in DOMAIN inflight[p].snapshot
                /\ listAt(subscriptions, keyOf(q)) = listAt(inflight[p].snapshot, keyOf(q))

\* both operations returned success, p2 stored a subscription under o/s, and the
\* document holds only p1's subscription under o/r: p2's change is lost
C35_Witness ==
    /\ inflight["p1"].pc = "done"
    /\ inflight["p2"].pc = "done"
    /\ ~inflight["p1"].err
    /\ ~inflight["p2"].err
    /\ inflight["p1"].op = "AddSubscription"
    /\ inflight["p2"].op = "AddSubscription"
    /\ inflight["p2"].written
    /\ inflight["p1"].last
    /\ DOMAIN subscriptions = {nameOR}
    /\ Len(subscriptions[nameOR]) = 1

-----------------------------------------------------------------------------
(* Specification of the subscribe and unsubscribe commands *)

ExcludeRepoFlags == [ExcludeOrgMembers |-> FALSE, ExcludeOrgRepos |-> TRUE]

\* the loop of handleSubscribesAdd over the values of --exclude: [rejected, off],
\* the list as stored when the loop ends or returns
RECURSIVE excludeRepos(_, _, _)
excludeRepos(off, owner, values) ==
    IF values = <<>> THEN [rejected |-> FALSE, off |-> off]
    ELSE IF parseOwnerAndRepo(Head(values)).owner # owner
    THEN [rejected |-> TRUE, off |-> off]
    ELSE excludeRepos(StoreExcludedNotificationRepo(off, Head(values)), owner,
                      Tail(values))

\* handleSubscribesAdd for a valid feature list: [msg, subs, off], the answer of
\* the command and the two documents afterwards
handleSubscribesAdd(subs, off, userID, parameter, channelID, features, flags, excludeRepo) ==
    LET parsed == parseOwnerAndRepo(parameter)
        res    == Subscribe(subs, userID, parsed.owner, parsed.repo, channelID, features,
                            flags, TRUE, FALSE)
        ex     == excludeRepos(off, parsed.owner, Split(excludeRepo, Comma))
    IN  IF parsed.repo = Empty
        THEN IF res.err THEN [msg |-> "error", subs |-> subs, off |-> off]
             ELSE IF ~flags.ExcludeOrgRepos
             THEN [msg |-> "subscribed", subs |-> res.subs, off |-> off]
             ELSE IF ex.rejected
             THEN [msg |-> "not of subscribed organization", subs |-> res.subs,
                   off |-> ex.off]
             ELSE [msg |-> "subscribed", subs |-> res.subs, off |-> ex.off]
        ELSE IF flags.ExcludeOrgRepos
        THEN [msg |-> "organization level only", subs |-> subs, off |-> off]
        ELSE IF res.err THEN [msg |-> "error", subs |-> subs, off |-> off]
        ELSE [msg |-> "subscribed", subs |-> res.subs, off |-> off]

handleUnsubscribe_OnlyIfSubscribed(subs, off, channelID, repo) ==
    LET res == Unsubscribe(subs, channelID, repo)
    IN  [err |-> res.err, written |-> res.written, subs |-> res.subs,
         off |-> IF res.written THEN EnableNotificationTurnedOffRepo(off, repo) ELSE off]

\* handleUnsubscribe: [err, written, subs, off]
handleUnsubscribe(subs, off, channelID, repo) ==
    LET res == Unsubscribe(subs, channelID, repo)
    IN  [err |-> res.err, written |-> res.written, subs |-> res.subs,
         off |-> EnableNotificationTurnedOffRepo(off, repo)]

nameXR == <<"x", "/", "r">>

\* values of --exclude: none, repositories of the organization o, a repository
\* of another owner, and the two mixed
ExcludeLists ==
    {Empty, nameOR, Join(<<nameOR, nameOS>>, Comma), nameXR,
     Join(<<nameOS, nameXR>>, Comma)}

SubscribesAddStep(Parameters, FlagSet, Excludes) ==
    /\ Idle
    /\ \E parameter \in Parameters, channelID \in Channels, flags \in FlagSet,
          excludeRepo \in Excludes :
           \E res \in {handleSubscribesAdd(subscriptions, notificationOff, "uAl", parameter,
                                           channelID, featurePulls, flags, excludeRepo)} :
               /\ subscriptions' = res.subs
               /\ notificationOff' = res.off
               /\ call' = [op |-> "handleSubscribesAdd", channel |-> channelID,
                           repo |-> parameter, flags |-> flags, exclude |-> excludeRepo,
                           msg |-> res.msg]
               /\ UNCHANGED <<mutedUsers, config, verify, inflight, webhookVars>>

HandleUnsubscribeStep(RepoArgs) ==
    /\ Idle
    /\ \E channelID \in Channels, repo \in RepoArgs :
           \E res \in {handleUnsubscribe(subscriptions, notificationOff, channelID, repo)} :
               /\ subscriptions' = res.subs
               /\ notificationOff' = res.off
               /\ call' = [op |-> "handleUnsubscribe", channel |-> channelID, repo |-> repo,
                           err |-> res.err, written |-> res.written,
                           wasOff |-> ItemExists(notificationOff, repo)]
               /\ UNCHANGED <<mutedUsers, config, verify, inflight, webhookVars>>

CommandsNext ==
    \/ SubscribesAddStep({ownerO, keyO, nameOR}, {NoFlags, ExcludeRepoFlags}, ExcludeLists)
    \/ HandleUnsubscribeStep({nameOR, nameOS, keyO, Empty})

SpecCommands == Init /\ [][CommandsNext]_vars

\* C36: a subscribe command that is rejected because a value of --exclude is not
\* of the subscribed organization leaves the subscriptions document and the
\* notification-disabled list as they were.
C36_RejectedExcludeChangesNothing ==
    [][(call'.op = "handleSubscribesAdd"
            /\ call'.msg = "not of subscribed organization")
        => (subscriptions' = subscriptions /\ notificationOff' = notificationOff)]_vars

\* C37: handleUnsubscribe takes the repository out of the notification-disabled
\* list whether or not the channel has a subscription to it and whatever
\* Unsubscribe answers, keeping the other names; when it reports success the
\* repository is not disabled.
C37_UnsubscribeEnablesRepo ==
    [][call'.op = "handleUnsubscribe" =>
         LET Other(name) == name # call'.repo
         IN  /\ notificationOff' = SelectSeq(notificationOff, Other)
             /\ ~call'.err =>
                    \A name \in {nameOR, nameOS, keyO, Empty} :
                        name = call'.repo => ~IsNotificationOff(BaseRequest, name)']_vars

\* channel c1, which has no subscription to o/r, unsubscribes from it while c2 is
\* subscribed to the organization that had o/r disabled
C37_Witness ==
    /\ call.op = "handleUnsubscribe"
    /\ call.channel = "c1"
    /\ call.repo = nameOR
    /\ call.wasOff
    /\ ~call.written
    /\ ~call.err
    /\ nameOR \notin Range(notificationOff)
    /\ keyO \in DOMAIN subscriptions
    /\ Len(subscriptions[keyO]) = 1
    /\ subscriptions[keyO][1].ChannelID = "c2"
    /\ subscriptions[keyO][1].Flags.ExcludeOrgRepos

-----------------------------------------------------------------------------
(* Specification of the kill-switch lookup *)

nameUpperOR == <<"O", "/", "R">>

\* an eligible request of every kind for o/r, named in lower or in upper case,
\* with the KV read of the notification-disabled list succeeding or failing
LookupRequests ==
    {[Sample(kind) EXCEPT !.repo = name, !.kvFail = kvFail] :
        kind \in EventKinds, name \in {nameOR, nameUpperOR}, kvFail \in {{}, {"off"}}}

LookupNext ==
    \/ SubscribeStep({ownerO}, {Empty, repoR}, {"uAl"}, {AllFeatures}, {NoFlags}, {TRUE})
    \/ DisableStep({nameOR, nameUpperOR})
    \/ EnableStep({nameOR, nameUpperOR})
    \/ WebhookStep(LookupRequests)
    \/ Respond

SpecLookup == Init /\ [][LookupNext]_vars

\* the posts go, in order, to the channels of the matched subscriptions
postedToAllCandidates ==
    /\ Len(posts) = Len(candidates(request))
    /\ \A i \in 1..Len(posts) : posts[i].channel = candidates(request)[i].ChannelID

\* C38: when the read of the notification-disabled list fails while an event is
\* handled, the event is handled as if the list were empty: every matched
\* subscription gets its post and the actors get their direct messages, also for
\* a repository that is in the stored list.
C38_KillSwitchFailsOpen ==
    (/\ Handled
     /\ request.kind \in EventKinds
     /\ "off" \in request.kvFail)
    => /\ ~IsNotificationOff(request, request.repo)
       /\ postedToAllCandidates
       /\ dms = handler(request).dms
       /\ status = 200

C38_Witness ==
    /\ Handled
    /\ "off" \in request.kvFail
    /\ request.kind = "issue_comment"
    /\ request.repo = nameOR
    /\ nameOR \in Range(notificationOff)
    /\ posts # <<>>
    /\ dms # <<>>

\* C39: the kill-switch compares the event's full name with the stored names
\* letter for letter, while the matcher lower-cases it: an event whose full name
\* is not itself in the list, though it differs from a stored name only in
\* letter case, is posted to every matched subscription.
C39_KillSwitchIsCaseSensitive ==
    (/\ Handled
     /\ request.kind \in EventKinds
     /\ "off" \notin request.kvFail
     /\ request.repo \notin Range(notificationOff))
    => /\ postedToAllCandidates
       /\ dms = handler(request).dms

C39_Witness ==
    /\ Handled
    /\ "off" \notin request.kvFail
    /\ request.kind = "push"
    /\ request.repo = nameUpperOR
    /\ notificationOff = <<nameOR>>
    /\ nameOR \in DOMAIN subscriptions
    /\ Len(subscriptions[nameOR]) = 1
    /\ posts = <<[channel |-> subscriptions[nameOR][1].ChannelID,
                  type |-> "custom_git_push"]>>

-----------------------------------------------------------------------------
(* Specification of the private-repository setting *)

PrivateOffConfig == [DefaultConfig EXCEPT !.EnablePrivateRepo = FALSE]

InitPrivateOff ==
    /\ subscriptions = <<>>
    /\ notificationOff = <<>>
    /\ mutedUsers = [u \in UserIDs |-> Empty]
    /\ config \in {DefaultConfig, PrivateOffConfig}
    /\ request = NoRequest
    /\ posts = <<>>
    /\ dms = <<>>
    /\ refreshes = <<>>
    /\ status = 0
    /\ call = NoCall
    /\ verify = NoVerify
    /\ inflight = NoInflight

\* an eligible request of every kind on a public and on a private repository
\* that every creator and every actor can read
PrivateOffRequests ==
    {[Sample(kind) EXCEPT !.private = private] :
        kind \in EventKinds, private \in {FALSE, TRUE}}

PrivateOffNext ==
    \/ SubscribeStep({ownerO}, {Empty, repoR}, {"uAl"}, {AllFeatures}, {NoFlags}, {TRUE})
    \/ WebhookStep(PrivateOffRequests)
    \/ Respond

SpecPrivateOff == InitPrivateOff /\ [][PrivateOffNext]_vars

\* C40: with private repositories disabled in the configuration, an event of any
\* kind on a private repository has no channel post, no direct message and no
\* refresh signal, whatever is subscribed and whoever is mentioned.
C40_PrivateDisabledIsSilent ==
    (/\ Handled
     /\ request.private
     /\ ~config.EnablePrivateRepo)
    => (posts = <<>> /\ dms = <<>> /\ refreshes = <<>>)

C40_Witness ==
    /\ Handled
    /\ request.private
    /\ ~config.EnablePrivateRepo
    /\ request.kind = "issue_comment"
    /\ request.mentions = <<userBo>>
    /\ "uAl" \in request.canRead
    /\ "uBo" \in request.canRead
    /\ Len(candidates(request)) = 2
    /\ posts = <<>>
    /\ dms = <<>>
    /\ status = 200

=============================================================================
